---- MODULE Spec2Model ----
(***************************************************************************)
(* Model of the model-runner distribution subsystem:                       *)
(*   - the pull concurrency gate of models.Manager (pullTokens semaphore), *)
(*   - the content-addressed blob store of store.LocalStore (WriteBlob,    *)
(*     hasBlob, removeBlob, GetIncompleteSize, writeConfigFile).           *)
(***************************************************************************)
EXTENDS Naturals, Integers, Sequences, FiniteSets, TLC

\* ------------------------------------------------------------------------
\* Bounds of the model
\* ------------------------------------------------------------------------

\* Number of concurrent HTTP pull requests (POST /models/create) in flight.
NumReqs == 3

\* Longest blob content (in bytes) used as a download target.
MaxLen == 2

\* Longest file the model lets an .incomplete file grow to.
MaxFile == 3

\* ------------------------------------------------------------------------
\* Program constants
\* ------------------------------------------------------------------------

\* const maximumConcurrentModelPulls = 2
maximumConcurrentModelPulls == 2

Reqs == 1..NumReqs

VARIABLES
    \* ---- models.Manager pull gate ----
    pullTokens,   \* number of tokens buffered in the channel m.pullTokens
    rpc,          \* position of each request inside Manager.PullModel
    ctxDone,      \* r.Context().Done() is closed
    headers,      \* the streaming response headers have been set on w
    regIO,        \* distributionClient.PullModel has been entered
    rres,         \* error returned by Manager.PullModel
    \* ---- store.LocalStore blob files for one digest ----
    diffID,       \* the v1.Hash the writers are called with
    target,       \* the byte sequence that hashes to diffID
    inodes,       \* inode -> file content (sequence of bytes)
    blobIno,      \* inode linked at blobs/<alg>/<hex>, or NoIno
    incIno,       \* inode linked at blobs/<alg>/<hex>.incomplete, or NoIno
    blobOrigin,   \* how the file at the final path got there
    renames,      \* number of successful renames onto the final path
    wpc,          \* position of each writer inside WriteBlob
    isResume,     \* WriteBlob's local isResume
    fd,           \* inode of WriteBlob's open file f
    off,          \* write offset of f (unused when f is O_APPEND)
    rdata,        \* bytes the reader r still has to supply
    rfail,        \* the reader ends with an error instead of io.EOF
    wret,         \* value returned by WriteBlob
    \* ---- history of the current WriteBlob call (claims only) ----
    rgiven,       \* all bytes the reader was set up to supply
    nread,        \* bytes read from r so far
    entryInc,     \* content of the .incomplete file on entry, or None
    entryBlob,    \* hasBlob on entry
    untrusted,    \* some fresh write was fed by a non-verifying reader
    \* ---- store.LocalStore blobs directory seen by the stale cleanup ----
    now,          \* the wall clock (time.Now)
    present,      \* paths under blobs/ that exist
    modTime,      \* path -> info.ModTime()
    cleaned,      \* CleanupStaleIncompleteFiles has just returned
    lastCleanup,  \* the call that just returned (claims only)
    \* ---- store.LocalStore path safety ----
    hashArg,      \* the v1.Hash a store operation is called with
    hashOp,       \* the store operation called
    hashDone,     \* the operation has returned
    hashRes,      \* what blobPath returned to it
    hashTouched,  \* the operation went on to the file system
    \* ---- models.Manager.handleCreateModel, per request ----
    memCheckEnabled, \* memory.RuntimeMemoryCheckEnabled()
    hpc,          \* position of the handler
    ignoreCheck,  \* request.IgnoreRuntimeMemoryCheck
    est,          \* what HaveSufficientMemoryForModel returned
    hstatus,      \* HTTP status of the response, NoStatus before WriteHeader
    hbody,        \* what has been written to the response body, in order
    \* ---- progress of the layers of one pull ----
    lstarted,     \* writeLayer has wrapped the layer's reader
    lstart,       \* incompleteSize found by writeLayer
    ltotal,       \* bytes counted by the layer's progress reader
    pstream,      \* progress events of the pull, in the order sent
    pnext,        \* number of events displayProgressSimple has consumed
    layerProgress, \* displayProgressSimple's map layerProgress
    \* ---- DisplayProgress on one response body ----
    dTerminal,    \* printer.GetFdInfo() says the output is a terminal
    dDisplayErr,  \* jsonmessage.DisplayJSONMessagesStream fails
    dBase,        \* the lines of the progress stream as sent
    dStream,      \* the same lines with others inserted
    dDone,        \* DisplayProgress has returned
    dRes,         \* what it returned for dStream
    dBaseRes,     \* what it returns for dBase
    \* ---- references: the local index and the handlers that resolve ----
    models,       \* distributionClient.ListModels(): the store's listing
    uref,         \* the reference as typed by the user
    gref,         \* r.PathValue("name") of the request being handled
    gremote,      \* the request's remote query parameter
    gpc,          \* position of the client and of the handler
    gtrace,       \* the lookups made for the request, in order
    gres,         \* the response: status and model ID
    regCalls,     \* references handed to registry-facing operations
    \* ---- reference normalization and display names ----
    nameArg,      \* the reference given at pull time, or the name to display
    nameEnv,      \* the DEFAULT_REGISTRY environment variable ("" when unset)
    nameOp,       \* which function has been applied
    nameOut,      \* its result
    nameArg2,     \* the reference given at run time
    nameOut2,     \* its normalized form
    \* ---- handleCreateModel: the end of the pull ----
    herr,         \* per request: the kind of error PullModel returned
    hlog,         \* per request: the level at which the handler logged it
    \* ---- history of the current writeLayer call (claims only) ----
    lattempts,    \* per writer: WriteBlob calls made by the writeLayer call
    lresult,      \* per writer: the error writeLayer returned to its caller
    \* ---- the manifest and tag index behind the model handlers ----
    tagIndex,     \* tag -> the model (manifest) it points at, or NoModel
    manifests,    \* the models whose manifest is in the store
    blobs,        \* the blobs in the store
    ipull,        \* the pull or package under way, or NoPull
    istatus,      \* the status of the last handler's response
    ilast,        \* the last operation and whether it changed the store
    clientNil,    \* whether the manager was built without a distribution client
    \* ---- registry.GetDefaultRegistryOptions ----
    regState,     \* the once-guard, the cached options, the environment, the last result
    \* ---- commands.prettyPrintModels ----
    listState,    \* the models listed and the rows of the table
    \* ---- desktop.DisplayProgress on a terminal: the pipe to the display ----
    pipe,         \* the body, the main loop, the display goroutine, pw and errCh
    \* ---- RunBackend ----
    backend       \* the context, the process, the waiting goroutine, the caller

pullVars == <<pullTokens, rpc, ctxDone, headers, regIO, rres>>

fsVars == <<inodes, blobIno, incIno, blobOrigin, renames>>

writerVars == <<wpc, isResume, fd, off, rdata, rfail, wret>>

histVars == <<rgiven, nread, entryInc, entryBlob, untrusted>>

storeVars == <<diffID, target, fsVars, writerVars, histVars>>

cleanupVars == <<now, present, modTime, cleaned, lastCleanup>>

hashVars == <<hashArg, hashOp, hashDone, hashRes, hashTouched>>

\* Everything beside the pull gate and the blob files of one digest.
createVars == <<memCheckEnabled, hpc, ignoreCheck, est, hstatus, hbody>>

progressVars == <<lstarted, lstart, ltotal, pstream, pnext, layerProgress>>

displayVars == <<dTerminal, dDisplayErr, dBase, dStream, dDone, dRes, dBaseRes>>

refVars == <<models, uref, gref, gremote, gpc, gtrace, gres, regCalls>>

nameVars == <<nameArg, nameEnv, nameOp, nameOut, nameArg2, nameOut2>>

\* The components that follow the reference resolvers.
createLogVars == <<herr, hlog>>

layerVars == <<lattempts, lresult>>

indexVars == <<tagIndex, manifests, blobs, ipull, istatus, ilast, clientNil>>

\* The components that follow the index.
lateVars == <<regState, listState, pipe, backend>>

tailVars == <<nameVars, createLogVars, layerVars, indexVars, lateVars>>

\* Everything before them.
earlyVars ==
    <<pullVars, storeVars, cleanupVars, hashVars, createVars, progressVars, displayVars,
      refVars, nameVars, createLogVars, layerVars, indexVars>>

\* The frame of the store where it records the calls of writeLayer.
restButLayer ==
    <<cleanupVars, hashVars, createVars, progressVars, displayVars, refVars, nameVars,
      createLogVars, indexVars, lateVars>>

\* The frame of the manifest and tag index.
exceptIndex ==
    <<pullVars, storeVars, cleanupVars, hashVars, createVars, progressVars, displayVars,
      refVars, nameVars, createLogVars, layerVars, lateVars>>

restVars == <<cleanupVars, hashVars, createVars, progressVars, displayVars, refVars, tailVars>>

\* The frame of each of these components.
exceptCleanup == <<pullVars, storeVars, hashVars, createVars, progressVars, displayVars, refVars, tailVars>>

exceptHash == <<pullVars, storeVars, cleanupVars, createVars, progressVars, displayVars, refVars, tailVars>>

exceptCreate == <<storeVars, cleanupVars, hashVars, progressVars, displayVars, refVars, tailVars>>

exceptProgress == <<pullVars, storeVars, cleanupVars, hashVars, createVars, displayVars, refVars, tailVars>>

exceptDisplay == <<pullVars, storeVars, cleanupVars, hashVars, createVars, progressVars, refVars, tailVars>>

exceptRef == <<pullVars, storeVars, cleanupVars, hashVars, createVars, progressVars, displayVars, tailVars>>

vars == <<pullVars, storeVars, restVars>>

exceptName == <<pullVars, storeVars, cleanupVars, hashVars, createVars, progressVars, displayVars,
                refVars, createLogVars, layerVars, indexVars, lateVars>>

\* The frame of handleCreateModel where it records the end of the pull.
exceptCreateAndLog ==
    <<storeVars, cleanupVars, hashVars, progressVars, displayVars, refVars, nameVars, layerVars,
      indexVars, lateVars>>

\* ========================================================================
\* models.Manager: pull concurrency gate
\* ========================================================================

\* Positions inside Manager.PullModel.
\*   idle      no request on this connection
\*   select    blocked in select { <-m.pullTokens ; <-r.Context().Done() }
\*   held      token taken, deferred release registered
\*   pulling   inside distributionClient.PullModel
\*   done      PullModel has returned (its deferred function has run)
HoldingPcs == {"held", "pulling"}

\* NewManager mutated: one token too many is put into the channel.
PopulateOneTooMany == maximumConcurrentModelPulls + 1

\* NewManager: for i := 0; i < maximumConcurrentModelPulls; i++ { m.pullTokens <- struct{}{} }
PopulateTokens == maximumConcurrentModelPulls

\* Deferred release mutated: the early 'streaming not supported' return
\* leaves without giving the token back.
ReleaseSkipsEarlyReturn(tokens, res) == IF res = "nostream" THEN tokens ELSE tokens + 1

\* defer func() { m.pullTokens <- struct{}{} }()
DeferredRelease(tokens, res) == tokens + 1

\* Receive mutated: the select takes the receive case on an empty channel.
ReceiveFromEmpty(tokens) == tokens >= 0

\* case <-m.pullTokens: is ready iff the channel buffers a token.
CanReceiveToken(tokens) == tokens > 0

InitPull ==
    /\ pullTokens = PopulateTokens
    /\ rpc = [r \in Reqs |-> "idle"]
    /\ ctxDone = [r \in Reqs |-> FALSE]
    /\ headers = [r \in Reqs |-> FALSE]
    /\ regIO = [r \in Reqs |-> FALSE]
    /\ rres = [r \in Reqs |-> "none"]

\* handleCreateModel calls m.PullModel(request.From, r, w): the call reaches
\* the select statement.
PullModelCall(r) ==
    /\ rpc[r] = "idle"
    /\ rpc' = [rpc EXCEPT ![r] = "select"]
    /\ UNCHANGED <<pullTokens, ctxDone, headers, regIO, rres, storeVars, restVars>>

\* The client disconnects or cancels: the request context is cancelled.
CtxCancel(r) ==
    /\ rpc[r] \in {"select", "held", "pulling"}
    /\ ~ctxDone[r]
    /\ ctxDone' = [ctxDone EXCEPT ![r] = TRUE]
    /\ UNCHANGED <<pullTokens, rpc, headers, regIO, rres, storeVars, restVars>>

\* select case <-m.pullTokens; the deferred release is registered.
AcquireToken(r) ==
    /\ rpc[r] = "select"
    /\ CanReceiveToken(pullTokens)
    /\ pullTokens' = pullTokens - 1
    /\ rpc' = [rpc EXCEPT ![r] = "held"]
    /\ UNCHANGED <<ctxDone, headers, regIO, rres, storeVars, restVars>>

\* select case <-r.Context().Done(): return context.Canceled
CancelWhileWaiting(r) ==
    /\ rpc[r] = "select"
    /\ ctxDone[r]
    /\ rpc' = [rpc EXCEPT ![r] = "done"]
    /\ rres' = [rres EXCEPT ![r] = "Canceled"]
    /\ UNCHANGED <<pullTokens, ctxDone, headers, regIO, storeVars, restVars>>

\* Headers are set; w.(http.Flusher) succeeds and distributionClient.PullModel
\* is entered.
BeginPull(r) ==
    /\ rpc[r] = "held"
    /\ headers' = [headers EXCEPT ![r] = TRUE]
    /\ regIO' = [regIO EXCEPT ![r] = TRUE]
    /\ rpc' = [rpc EXCEPT ![r] = "pulling"]
    /\ UNCHANGED <<pullTokens, ctxDone, rres, storeVars, restVars>>

\* Headers are set; w.(http.Flusher) fails: return "streaming not supported";
\* the deferred function puts the token back.
NoFlusher(r) ==
    /\ rpc[r] = "held"
    /\ headers' = [headers EXCEPT ![r] = TRUE]
    /\ rres' = [rres EXCEPT ![r] = "nostream"]
    /\ pullTokens' = DeferredRelease(pullTokens, "nostream")
    /\ rpc' = [rpc EXCEPT ![r] = "done"]
    /\ UNCHANGED <<ctxDone, regIO, storeVars, restVars>>

\* distributionClient.PullModel returns: nil, an error, or (only when the
\* context is cancelled) the context's error.
PullOutcomes(r) == {"nil", "pullerr"} \cup (IF ctxDone[r] THEN {"ctxerr"} ELSE {})

\* distributionClient.PullModel returns, PullModel returns its result and the
\* deferred function puts the token back.
PullReturns(r) ==
    /\ rpc[r] = "pulling"
    /\ \E e \in PullOutcomes(r) :
        /\ rres' = [rres EXCEPT ![r] = e]
        /\ pullTokens' = DeferredRelease(pullTokens, e)
    /\ rpc' = [rpc EXCEPT ![r] = "done"]
    /\ UNCHANGED <<ctxDone, headers, regIO, storeVars, restVars>>

\* The handler has returned; the connection slot serves a new request.
NextRequest(r) ==
    /\ rpc[r] = "done"
    /\ rpc' = [rpc EXCEPT ![r] = "idle"]
    /\ ctxDone' = [ctxDone EXCEPT ![r] = FALSE]
    /\ headers' = [headers EXCEPT ![r] = FALSE]
    /\ regIO' = [regIO EXCEPT ![r] = FALSE]
    /\ rres' = [rres EXCEPT ![r] = "none"]
    /\ UNCHANGED <<pullTokens, storeVars, restVars>>


\* ========================================================================
\* store.LocalStore: blob files of one digest
\* ========================================================================

\* Number of goroutines that may run WriteBlob for the same digest.
NumWriters == 2

Writers == 1..NumWriters

\* The sequential store is driven by a single caller.
SeqWriters == {1}

\* Inodes of the files blobs/<alg>/<hex> and blobs/<alg>/<hex>.incomplete:
\* one per path plus one per open descriptor.
Inodes == 1..(NumWriters + 2)

NoIno == 0

Bytes == {0, 1}

SeqsUpTo(n) == UNION {[1..k -> Bytes] : k \in 0..n}

\* An optional file content: None, or Some(c).
None == <<>>

Some(c) == <<c>>

\* var allowedAlgorithms = map[string]int{"sha256": 64, "sha512": 128}
allowedAlgorithms == {"sha256", "sha512"}

\* A v1.Hash.  Hex stands for the digest of the byte sequence under the
\* algorithm; digests are collision free, so the digest of c is represented
\* by c itself and two hashes are equal iff algorithm and bytes agree.
Digest(alg, c) == [Algorithm |-> alg, Hex |-> c]

\* v1.SHA256(reader): always a sha256 hash, whatever algorithm the caller's
\* diffID names.
SHA256(c) == Digest("sha256", c)

\* v1.Hash.String(): "<algorithm>:<hex>"
HashString(h) == <<h.Algorithm, h.Hex>>

\* if err == nil && computedHash.String() == diffID.String()   (on entry)
AlreadyComplete(c, want) == HashString(SHA256(c)) = HashString(want)

\* Verification after a resume mutated: every completed file is accepted.
ResumeNeverMismatches(c, want) == FALSE

\* if computedHash.String() != diffID.String()   (after a resumed copy)
ResumeMismatch(c, want) == HashString(SHA256(c)) # HashString(want)

\* hasBlob mutated: the stat also succeeds on the .incomplete sibling.
hasBlobOrIncomplete == blobIno # NoIno \/ incIno # NoIno

\* hasBlob: os.Stat(path) succeeds.
hasBlob == blobIno # NoIno

\* GetIncompleteSize: size of the .incomplete file, 0 when it does not exist.
GetIncompleteSize == IF incIno = NoIno THEN 0 ELSE Len(inodes[incIno])

\* Content of the file at a path, as an option.
FileAt(ino) == IF ino = NoIno THEN None ELSE Some(inodes[ino])

\* Unreferenced inodes are freed (their content is dropped).
Collect(f, b, i, fds) ==
    [n \in Inodes |->
        IF n = b \/ n = i \/ (\E w \in Writers : fds[w] = n) THEN f[n] ELSE <<>>]

FreeInode == CHOOSE n \in Inodes :
    /\ n # blobIno /\ n # incIno /\ (\A w \in Writers : fd[w] # n)
    /\ \A m \in Inodes :
        (m # blobIno /\ m # incIno /\ (\A w \in Writers : fd[w] # m)) => n <= m

Zeros(k) == [j \in 1..k |-> 0]

\* write(2) of one byte b at offset o of a file with content c (a write past
\* the end leaves a hole of zero bytes).
WriteAt(c, o, b) ==
    IF o < Len(c) THEN [c EXCEPT ![o + 1] = b]
    ELSE c \o Zeros(o - Len(c)) \o <<b>>

InitWriters ==
    /\ wpc = [w \in Writers |-> "idle"]
    /\ isResume = [w \in Writers |-> FALSE]
    /\ fd = [w \in Writers |-> NoIno]
    /\ off = [w \in Writers |-> 0]
    /\ rdata = [w \in Writers |-> <<>>]
    /\ rfail = [w \in Writers |-> FALSE]
    /\ wret = [w \in Writers |-> "none"]
    /\ rgiven = [w \in Writers |-> <<>>]
    /\ nread = [w \in Writers |-> 0]
    /\ entryInc = [w \in Writers |-> None]
    /\ entryBlob = [w \in Writers |-> FALSE]
    /\ untrusted = FALSE

InitFiles ==
    /\ inodes = [n \in Inodes |-> <<>>]
    /\ blobIno = NoIno
    /\ incIno = NoIno
    /\ blobOrigin = "none"
    /\ renames = 0

\* The store starts empty; the digest under consideration is any allowed
\* hash of any non-empty byte sequence.
InitStore ==
    /\ target \in (SeqsUpTo(MaxLen) \ {<<>>})
    /\ \E a \in allowedAlgorithms : diffID = Digest(a, target)
    /\ InitFiles
    /\ InitWriters

\* WriteBlob returns v.
Return(w, v) ==
    /\ wpc' = [wpc EXCEPT ![w] = "returned"]
    /\ wret' = [wret EXCEPT ![w] = v]

\* WriteBlob(diffID, r) is called with a reader that supplies data and then
\* io.EOF (fail = FALSE) or an error (fail = TRUE); hasBlob is consulted.
WriteBlobCall(w, data, fail) ==
    /\ wpc[w] = "idle"
    /\ GetIncompleteSize + Len(data) <= MaxFile
    /\ rdata' = [rdata EXCEPT ![w] = data]
    /\ rfail' = [rfail EXCEPT ![w] = fail]
    /\ rgiven' = [rgiven EXCEPT ![w] = data]
    /\ nread' = [nread EXCEPT ![w] = 0]
    /\ entryInc' = [entryInc EXCEPT ![w] = FileAt(incIno)]
    /\ entryBlob' = [entryBlob EXCEPT ![w] = hasBlob]
    /\ IF hasBlob THEN Return(w, "nil")
       ELSE wpc' = [wpc EXCEPT ![w] = "stat"] /\ UNCHANGED wret
    /\ lattempts' = [lattempts EXCEPT ![w] = 0]
    /\ lresult' = [lresult EXCEPT ![w] = "none"]
    /\ UNCHANGED <<diffID, target, fsVars, isResume, fd, off, untrusted, pullVars, restButLayer>>

\* The bytes a layer's reader supplies when the download resumes at offset k.
LayerBytesFrom(k) == SubSeq(target, k + 1, Len(target))

\* writeLayer: hasBlob is false, GetIncompleteSize is read, the layer's reader
\* is opened (it supplies the layer's bytes from that offset on, and ends with
\* io.EOF or, fail = TRUE, with an error) and WriteBlob is about to be called.
writeLayer(w, fail) ==
    /\ wpc[w] = "idle"
    /\ ~hasBlob
    /\ rdata' = [rdata EXCEPT ![w] = LayerBytesFrom(GetIncompleteSize)]
    /\ rgiven' = [rgiven EXCEPT ![w] = LayerBytesFrom(GetIncompleteSize)]
    /\ rfail' = [rfail EXCEPT ![w] = fail]
    /\ wpc' = [wpc EXCEPT ![w] = "enter"]
    /\ lattempts' = [lattempts EXCEPT ![w] = 0]
    /\ lresult' = [lresult EXCEPT ![w] = "none"]
    /\ UNCHANGED <<diffID, target, fsVars, isResume, fd, off, wret, nread, entryInc,
                   entryBlob, untrusted, pullVars, restButLayer>>

\* WriteBlob is entered from writeLayer: hasBlob is consulted.
WriteBlobEnter(w) ==
    /\ wpc[w] = "enter"
    /\ entryInc' = [entryInc EXCEPT ![w] = FileAt(incIno)]
    /\ entryBlob' = [entryBlob EXCEPT ![w] = hasBlob]
    /\ IF hasBlob THEN Return(w, "nil")
       ELSE wpc' = [wpc EXCEPT ![w] = "stat"] /\ UNCHANGED wret
    /\ lattempts' = [lattempts EXCEPT ![w] = @ + 1]
    /\ UNCHANGED <<diffID, target, fsVars, isResume, fd, off, rdata, rfail, rgiven,
                   nread, untrusted, lresult, pullVars, restButLayer>>

\* if _, err := os.Stat(incompletePath); err == nil { ... } else { ... }
StatIncomplete(w) ==
    /\ wpc[w] = "stat"
    /\ wpc' = [wpc EXCEPT ![w] = IF incIno # NoIno THEN "verify" ELSE "create"]
    /\ UNCHANGED <<diffID, target, fsVars, isResume, fd, off, rdata, rfail, wret,
                   histVars, pullVars, restVars>>

\* existingFile, err := os.Open(incompletePath); v1.SHA256(existingFile);
\* compare with diffID.
VerifyIncomplete(w) ==
    /\ wpc[w] = "verify"
    /\ IF incIno = NoIno THEN Return(w, "openerr")
       ELSE /\ wpc' = [wpc EXCEPT ![w] =
                   IF AlreadyComplete(inodes[incIno], diffID)
                   THEN "renameComplete" ELSE "openAppend"]
            /\ UNCHANGED wret
    /\ UNCHANGED <<diffID, target, fsVars, isResume, fd, off, rdata, rfail,
                   histVars, pullVars, restVars>>

\* os.Rename(incompletePath, path)
RenameEffect ==
    /\ blobIno' = incIno
    /\ incIno' = NoIno
    /\ blobOrigin' = "rename"
    /\ renames' = renames + 1
    /\ inodes' = Collect(inodes, incIno, NoIno, fd)

\* File is already complete, just rename it: os.Rename(incompletePath, path);
\* return nil.
RenameComplete(w) ==
    /\ wpc[w] = "renameComplete"
    /\ IF incIno = NoIno
       THEN Return(w, "renameerr") /\ UNCHANGED fsVars
       ELSE Return(w, "nil") /\ RenameEffect
    /\ UNCHANGED <<diffID, target, isResume, fd, off, rdata, rfail,
                   histVars, pullVars, restVars>>

\* isResume = true; f, err = os.OpenFile(incompletePath, O_WRONLY|O_APPEND, 0644)
OpenAppend(w) ==
    /\ wpc[w] = "openAppend"
    /\ isResume' = [isResume EXCEPT ![w] = TRUE]
    /\ IF incIno = NoIno
       THEN Return(w, "openerr") /\ UNCHANGED fd
       ELSE /\ fd' = [fd EXCEPT ![w] = incIno]
            /\ wpc' = [wpc EXCEPT ![w] = "copy"]
            /\ UNCHANGED wret
    /\ UNCHANGED <<diffID, target, fsVars, off, rdata, rfail, histVars, pullVars, restVars>>

\* A verifying reader either supplies exactly the bytes of the digest or
\* ends with an error.
Verifying(data, fail) == fail \/ data = target

\* New download: f, err = createFile(incompletePath), i.e. os.Create, which
\* opens O_RDWR|O_CREATE|O_TRUNC: an existing file is truncated.
CreateFile(w) ==
    /\ wpc[w] = "create"
    /\ IF incIno = NoIno
       THEN /\ incIno' = FreeInode
            /\ fd' = [fd EXCEPT ![w] = FreeInode]
            /\ inodes' = [inodes EXCEPT ![FreeInode] = <<>>]
       ELSE /\ fd' = [fd EXCEPT ![w] = incIno]
            /\ inodes' = [inodes EXCEPT ![incIno] = <<>>]
            /\ UNCHANGED incIno
    /\ off' = [off EXCEPT ![w] = 0]
    /\ wpc' = [wpc EXCEPT ![w] = "copy"]
    /\ untrusted' = (untrusted \/ ~Verifying(rgiven[w], rfail[w]))
    /\ UNCHANGED <<diffID, target, blobIno, blobOrigin, renames, isResume, rdata,
                   rfail, wret, rgiven, nread, entryInc, entryBlob, pullVars, restVars>>

\* io.Copy(f, r): one byte is read from r and written to f (appended when f
\* was opened O_APPEND, at f's own offset otherwise).
CopyByte(w) ==
    /\ wpc[w] = "copy"
    /\ rdata[w] # <<>>
    /\ LET c == inodes[fd[w]]
           n == IF isResume[w] THEN Append(c, Head(rdata[w]))
                ELSE WriteAt(c, off[w], Head(rdata[w]))
       IN /\ Len(n) <= MaxFile
          /\ inodes' = [inodes EXCEPT ![fd[w]] = n]
    /\ off' = [off EXCEPT ![w] = IF isResume[w] THEN 0 ELSE off[w] + 1]
    /\ rdata' = [rdata EXCEPT ![w] = Tail(rdata[w])]
    /\ nread' = [nread EXCEPT ![w] = nread[w] + 1]
    /\ UNCHANGED <<diffID, target, blobIno, incIno, blobOrigin, renames, wpc,
                   isResume, fd, rfail, wret, rgiven, entryInc, entryBlob,
                   untrusted, pullVars, restVars>>

\* io.Copy returns nil (the reader reached io.EOF); f.Close().
CopyEOF(w) ==
    /\ wpc[w] = "copy"
    /\ rdata[w] = <<>>
    /\ ~rfail[w]
    /\ fd' = [fd EXCEPT ![w] = NoIno]
    /\ inodes' = Collect(inodes, blobIno, incIno, fd')
    /\ wpc' = [wpc EXCEPT ![w] = IF isResume[w] THEN "verifyCompleted" ELSE "rename"]
    /\ UNCHANGED <<diffID, target, blobIno, incIno, blobOrigin, renames, isResume,
                   off, rdata, rfail, wret, histVars, pullVars, restVars>>

\* if isResume { _ = os.Remove(incompletePath) }
RemoveOnCopyError(resume) == resume

\* io.Copy returns the reader's error: the partial file of a resume is
\* removed, the error is returned (the deferred f.Close() runs).
CopyError(w) ==
    /\ wpc[w] = "copy"
    /\ rdata[w] = <<>>
    /\ rfail[w]
    /\ incIno' = IF RemoveOnCopyError(isResume[w]) THEN NoIno ELSE incIno
    /\ fd' = [fd EXCEPT ![w] = NoIno]
    /\ inodes' = Collect(inodes, blobIno, incIno', fd')
    /\ Return(w, "copyerr")
    /\ UNCHANGED <<diffID, target, blobIno, blobOrigin, renames, isResume, off,
                   rdata, rfail, histVars, pullVars, restVars>>

\* For resumed downloads: completeFile, err := os.Open(incompletePath);
\* v1.SHA256(completeFile); compare with diffID.
VerifyCompleted(w) ==
    /\ wpc[w] = "verifyCompleted"
    /\ IF incIno = NoIno THEN Return(w, "openerr")
       ELSE /\ wpc' = [wpc EXCEPT ![w] =
                   IF ResumeMismatch(inodes[incIno], diffID)
                   THEN "removeCorrupt" ELSE "rename"]
            /\ UNCHANGED wret
    /\ UNCHANGED <<diffID, target, fsVars, isResume, fd, off, rdata, rfail,
                   histVars, pullVars, restVars>>

\* _ = os.Remove(incompletePath); return "hash mismatch after download"
RemoveCorrupt(w) ==
    /\ wpc[w] = "removeCorrupt"
    /\ incIno' = NoIno
    /\ inodes' = Collect(inodes, blobIno, NoIno, fd)
    /\ Return(w, "mismatch")
    /\ UNCHANGED <<diffID, target, blobIno, blobOrigin, renames, isResume, fd, off,
                   rdata, rfail, histVars, pullVars, restVars>>

\* if err := os.Rename(incompletePath, path); err != nil { return err }
FinalRename(w) ==
    /\ wpc[w] = "rename"
    /\ IF incIno = NoIno
       THEN Return(w, "renameerr") /\ UNCHANGED fsVars
       ELSE /\ RenameEffect
            /\ wpc' = [wpc EXCEPT ![w] = "cleanup"]
            /\ UNCHANGED wret
    /\ UNCHANGED <<diffID, target, isResume, fd, off, rdata, rfail,
                   histVars, pullVars, restVars>>

\* os.Remove(incompletePath); return nil
Cleanup(w) ==
    /\ wpc[w] = "cleanup"
    /\ incIno' = NoIno
    /\ inodes' = Collect(inodes, blobIno, NoIno, fd)
    /\ Return(w, "nil")
    /\ UNCHANGED <<diffID, target, blobIno, blobOrigin, renames, isResume, fd, off,
                   rdata, rfail, histVars, pullVars, restVars>>

\* Locals of a finished or killed WriteBlob call.
ClearedLocals(w) ==
    /\ isResume' = [isResume EXCEPT ![w] = FALSE]
    /\ fd' = [fd EXCEPT ![w] = NoIno]
    /\ off' = [off EXCEPT ![w] = 0]
    /\ rdata' = [rdata EXCEPT ![w] = <<>>]
    /\ rfail' = [rfail EXCEPT ![w] = FALSE]
    /\ wret' = [wret EXCEPT ![w] = "none"]
    /\ rgiven' = [rgiven EXCEPT ![w] = <<>>]
    /\ nread' = [nread EXCEPT ![w] = 0]
    /\ entryInc' = [entryInc EXCEPT ![w] = None]
    /\ entryBlob' = [entryBlob EXCEPT ![w] = FALSE]

\* The caller has consumed WriteBlob's result; writeLayer, when it is the
\* caller, returns that result to its own caller.
WriteBlobDone(w) ==
    /\ wpc[w] = "returned"
    /\ wpc' = [wpc EXCEPT ![w] = "idle"]
    /\ ClearedLocals(w)
    /\ lresult' = [lresult EXCEPT ![w] = IF lattempts[w] > 0 THEN wret[w] ELSE "none"]
    /\ UNCHANGED <<diffID, target, fsVars, untrusted, lattempts, pullVars, restButLayer>>

\* The process is killed while WriteBlob calls are running: every call
\* stops where it is, the files stay as they are.
Crash ==
    /\ \E w \in Writers : wpc[w] \notin {"idle", "returned"}
    /\ wpc' = [w \in Writers |-> "idle"]
    /\ isResume' = [w \in Writers |-> FALSE]
    /\ fd' = [w \in Writers |-> NoIno]
    /\ off' = [w \in Writers |-> 0]
    /\ rdata' = [w \in Writers |-> <<>>]
    /\ rfail' = [w \in Writers |-> FALSE]
    /\ wret' = [w \in Writers |-> "none"]
    /\ rgiven' = [w \in Writers |-> <<>>]
    /\ nread' = [w \in Writers |-> 0]
    /\ entryInc' = [w \in Writers |-> None]
    /\ entryBlob' = [w \in Writers |-> FALSE]
    /\ inodes' = Collect(inodes, blobIno, incIno, fd')
    /\ UNCHANGED <<diffID, target, blobIno, incIno, blobOrigin, renames, untrusted,
                   pullVars, restVars>>

AllIdle == \A w \in Writers : wpc[w] = "idle"

\* removeBlob: os.Remove(path)
RemoveBlob ==
    /\ AllIdle
    /\ hasBlob
    /\ blobIno' = NoIno
    /\ blobOrigin' = "none"
    /\ renames' = 0
    /\ inodes' = Collect(inodes, NoIno, incIno, fd)
    /\ UNCHANGED <<diffID, target, incIno, writerVars, histVars, pullVars, restVars>>

\* writeFile(path, data): the file at path holds data afterwards.
writeFile(f, n, data) == [f EXCEPT ![n] = data]

\* writeConfigFile: the raw config file, whose sha256 is the config name, is
\* written to blobPath(hash) unless hasBlob(hash).
writeConfigFile ==
    /\ AllIdle
    /\ diffID.Algorithm = "sha256"
    /\ ~hasBlob
    /\ blobIno' = FreeInode
    /\ inodes' = writeFile(inodes, FreeInode, target)
    /\ blobOrigin' = "writeFile"
    /\ UNCHANGED <<diffID, target, incIno, renames, writerVars, histVars, pullVars, restVars>>

\* ========================================================================
\* store.LocalStore: CleanupStaleIncompleteFiles
\* ========================================================================

\* Latest instant of the wall clock.
MaxTime == 2

\* Largest maxAge a cleanup is called with.
MaxAge == 2

\* Paths below blobs/, as path elements followed by the name's suffixes:
\* a finalized blob, two in-progress downloads, a file whose name merely
\* contains ".incomplete", and a directory whose name ends in ".incomplete".
CleanupPaths ==
    { <<"sha256", "aa">>,
      <<"sha256", "aa", ".incomplete">>,
      <<"sha256", "bb", ".incomplete">>,
      <<"sha256", "bb", ".incomplete", ".bak">>,
      <<"tmp", ".incomplete">> }

\* info.IsDir()
IsDir(p) == p = <<"tmp", ".incomplete">>

\* strings.HasSuffix(path, ".incomplete")
HasSuffixIncomplete(p) == p[Len(p)] = ".incomplete"

StaleOffByOne(age, maxAge) == age > maxAge + 1

\* time.Since(info.ModTime()) > maxAge
IsStale(age, maxAge) == age > maxAge

\* At most one path is hit by an I/O fault during one walk.
OnePathOrNone == {{}} \cup {{p} : p \in CleanupPaths}

NoCleanup ==
    [maxAge |-> 0, at |-> 0, before |-> {}, after |-> {},
     mt |-> [p \in CleanupPaths |-> 0], unreadable |-> {}, res |-> "nil"]

\* An empty blobs directory at time 0.
InitCleanup ==
    /\ now = 0
    /\ present = {}
    /\ modTime = [p \in CleanupPaths |-> 0]
    /\ cleaned = FALSE
    /\ lastCleanup = NoCleanup

\* Time passes.
Tick ==
    /\ ~cleaned
    /\ now < MaxTime
    /\ now' = now + 1
    /\ UNCHANGED <<present, modTime, cleaned, lastCleanup, exceptCleanup>>

\* Some store operation creates or writes the file (or makes the directory)
\* p: its modification time becomes the current time.
TouchFile(p) ==
    /\ ~cleaned
    /\ present' = present \cup {p}
    /\ modTime' = [modTime EXCEPT ![p] = now]
    /\ UNCHANGED <<now, cleaned, lastCleanup, exceptCleanup>>

\* CleanupStaleIncompleteFiles(maxAge): filepath.Walk over the blobs
\* directory.  The walk reports an error for the paths in unreadable (the
\* callback skips them) and os.Remove fails for the paths in undeletable.
CleanupStaleIncompleteFiles(maxAge, unreadable, undeletable) ==
    LET visited == {p \in present : /\ p \notin unreadable
                                    /\ ~IsDir(p)
                                    /\ HasSuffixIncomplete(p)}
        stale == {p \in visited : IsStale(now - modTime[p], maxAge)}
        removed == stale \ undeletable
        cleanupErrors == stale \cap undeletable
    IN  /\ ~cleaned
        /\ present' = present \ removed
        /\ modTime' = [p \in CleanupPaths |-> IF p \in removed THEN 0 ELSE modTime[p]]
        /\ cleaned' = TRUE
        /\ lastCleanup' =
              [maxAge |-> maxAge, at |-> now, before |-> present,
               after |-> present', mt |-> modTime, unreadable |-> unreadable,
               res |-> IF cleanupErrors # {} THEN "error" ELSE "nil"]
        /\ UNCHANGED <<now, exceptCleanup>>

\* The caller has looked at the outcome of the cleanup.
CleanupReturned ==
    /\ cleaned
    /\ cleaned' = FALSE
    /\ lastCleanup' = NoCleanup
    /\ UNCHANGED <<now, present, modTime, exceptCleanup>>

\* ========================================================================
\* store.LocalStore: validateHash and blobPath
\* ========================================================================

\* var allowedAlgorithms = map[string]int{"sha256": 64, "sha512": 128}
allowedHexLength == [sha256 |-> 64, sha512 |-> 128]

\* Algorithm tags a caller may pass.
HashAlgorithms == {"sha256", "sha512", "md5", ".."}

\* Characters of a hex part, as code points: '/', '0', '9', 'A', 'a', 'f', 'g'.
HexChars == {47, 48, 57, 65, 97, 102, 103}

\* Lengths of a run of equal characters.
RunLengths == {1, 63, 64, 65, 127, 128}

\* A hex part is written as a sequence of runs <<character, length>>.
HexRuns == {<<c, n>> : c \in HexChars, n \in RunLengths}

HexStrings == {<<>>} \cup {<<a>> : a \in HexRuns} \cup {<<a, b>> : a \in HexRuns, b \in HexRuns}

RECURSIVE StrLen(_)
\* len(s)
StrLen(s) == IF s = <<>> THEN 0 ELSE s[1][2] + StrLen(Tail(s))

\* The characters that occur in s.
CharsOf(s) == {s[i][1] : i \in 1..Len(s)}

\* (c >= '0' && c <= '9') || (c >= 'a' && c <= 'f') || (c >= 'A' && c <= 'F')
IsHexChar(c) ==
    \/ (c >= 48 /\ c <= 57)
    \/ (c >= 97 /\ c <= 102)
    \/ (c >= 65 /\ c <= 70)

\* hexLength, ok := allowedAlgorithms[a]
isSafeAlgorithm(a) == a \in DOMAIN allowedHexLength

isSafeHex(hexLength, s) ==
    /\ StrLen(s) = hexLength
    /\ \A c \in CharsOf(s) : IsHexChar(c)

\* validateHash(hash): the error it returns, "nil" for none.
validateHash(hash) ==
    IF ~isSafeAlgorithm(hash.Algorithm) THEN "invalid hash algorithm"
    ELSE IF ~isSafeHex(allowedHexLength[hash.Algorithm], hash.Hex) THEN "invalid hash hex"
    ELSE "nil"

\* filepath.Rel(cleanRootPath, cleanPath) of a path given by its elements:
\* the elements below the root ("root"), or ".." when the path leaves it.
RelToRoot(path) ==
    IF Len(path) > 0 /\ path[1] = "root" THEN Tail(path) ELSE <<"..">>

\* strings.HasPrefix(relPath, "..")
HasDotDotPrefix(rel) == Len(rel) > 0 /\ rel[1] = ".."

\* filepath.Join(s.rootPath, blobsDir, hash.Algorithm, hash.Hex): a validated
\* hex part holds no separator, so it is one path element.
JoinBlobPath(hash) == <<"root", "blobs", hash.Algorithm, hash.Hex>>

\* blobPath(hash): the path and the error.
blobPath(hash) ==
    IF validateHash(hash) # "nil"
    THEN [path |-> <<>>, err |-> "unsafe hash"]
    ELSE IF HasDotDotPrefix(RelToRoot(JoinBlobPath(hash)))
         THEN [path |-> <<>>, err |-> "path traversal"]
         ELSE [path |-> JoinBlobPath(hash), err |-> "nil"]

\* The store operations that start by calling blobPath.
HashOps == {"WriteBlob", "hasBlob", "removeBlob", "GetIncompleteSize"}

NoPath == [path |-> <<>>, err |-> "nil"]

HashUnused ==
    /\ hashArg = [Algorithm |-> "sha256", Hex |-> <<>>]
    /\ hashOp = "hasBlob"
    /\ hashDone = FALSE
    /\ hashRes = NoPath
    /\ hashTouched = FALSE

\* Any operation is called with any hash.
InitHash ==
    /\ hashArg \in [Algorithm : HashAlgorithms, Hex : HexStrings]
    /\ hashOp \in HashOps
    /\ hashDone = FALSE
    /\ hashRes = NoPath
    /\ hashTouched = FALSE

\* The operation runs: it asks blobPath for the path, returns the error if
\* there is one, and otherwise goes on to os.Stat / os.Remove the file.
StoreOpOnHash ==
    /\ ~hashDone
    /\ hashDone' = TRUE
    /\ hashRes' = blobPath(hashArg)
    /\ hashTouched' = (blobPath(hashArg).err = "nil")
    /\ UNCHANGED <<hashArg, hashOp, exceptHash>>

\* ========================================================================
\* models.Manager: handleCreateModel and the response it writes
\* ========================================================================

\* Most events the distribution client writes during one pull.
MaxEvents == 3

\* The requests whose handler is followed step by step.
CreateReqs == {1}

\* No status line has been written yet.
NoStatus == 0

\* The events of the progress stream, and the output of http.Error.
ProgressEvents == {"progress", "success", "error"}

TerminalEvents == {"success", "error"}

NoEstimate == [called |-> FALSE, proceed |-> TRUE, err |-> FALSE]

CreateUnused ==
    /\ memCheckEnabled = FALSE
    /\ hpc = [r \in Reqs |-> "idle"]
    /\ ignoreCheck = [r \in Reqs |-> FALSE]
    /\ est = [r \in Reqs |-> NoEstimate]
    /\ hstatus = [r \in Reqs |-> NoStatus]
    /\ hbody = [r \in Reqs |-> <<>>]

InitCreate ==
    /\ memCheckEnabled \in BOOLEAN
    /\ hpc = [r \in Reqs |-> "idle"]
    /\ ignoreCheck = [r \in Reqs |-> FALSE]
    /\ est = [r \in Reqs |-> NoEstimate]
    /\ hstatus = [r \in Reqs |-> NoStatus]
    /\ hbody = [r \in Reqs |-> <<>>]

\* w.WriteHeader(code): only the first status set on a response counts.
WriteHeader(status, code) == IF status = NoStatus THEN code ELSE status

\* http.Error(w, text, code), then return: the handler has "rejected" the
\* request when PullModel was not called, and "replied" after PullModel.
HttpError(r, code) ==
    /\ hstatus' = [hstatus EXCEPT ![r] = WriteHeader(hstatus[r], code)]
    /\ hbody' = [hbody EXCEPT ![r] = Append(hbody[r], "text")]
    /\ hpc' = [hpc EXCEPT ![r] = IF hpc[r] = "pull" THEN "replied" ELSE "rejected"]

\* POST /models/create arrives: the nil check of the distribution client,
\* the decoding of the body, and the test that selects the memory check.
handleCreateModel(r, nilClient, badBody, ignore) ==
    /\ hpc[r] = "idle"
    /\ rpc[r] = "idle"
    /\ IF nilClient
       THEN HttpError(r, 503) /\ UNCHANGED ignoreCheck
       ELSE IF badBody
            THEN HttpError(r, 400) /\ UNCHANGED ignoreCheck
            ELSE /\ ignoreCheck' = [ignoreCheck EXCEPT ![r] = ignore]
                 /\ hpc' = [hpc EXCEPT ![r] =
                               IF memCheckEnabled /\ ~ignore THEN "memcheck" ELSE "pull"]
                 /\ UNCHANGED <<hstatus, hbody>>
    /\ UNCHANGED <<memCheckEnabled, est, pullVars, exceptCreate>>

MemoryErrorRejects(proceed, err) == proceed

\* if err != nil { proceed = true }
ProceedAfterEstimate(proceed, err) == IF err THEN TRUE ELSE proceed

\* m.memoryEstimator.HaveSufficientMemoryForModel returns (proceed, err).
HaveSufficientMemoryForModel(r, proceed, err) ==
    /\ hpc[r] = "memcheck"
    /\ est' = [est EXCEPT ![r] = [called |-> TRUE, proceed |-> proceed, err |-> err]]
    /\ IF ~ProceedAfterEstimate(proceed, err)
       THEN HttpError(r, 507)
       ELSE /\ hpc' = [hpc EXCEPT ![r] = "pull"]
            /\ UNCHANGED <<hstatus, hbody>>
    /\ UNCHANGED <<memCheckEnabled, ignoreCheck, pullVars, exceptCreate>>

\* m.PullModel(request.From, r, w) is called.
CreateCallsPull(r) ==
    /\ hpc[r] = "pull"
    /\ PullModelCall(r)

\* The distribution client writes progress events and then one terminal
\* event: nothing is written after a terminal event.
ClientMayWrite(body, ev) ==
    /\ ev \in ProgressEvents
    /\ \A i \in 1..Len(body) : body[i] \notin TerminalEvents

\* progressResponseWriter.Write(p), called by the distribution client during
\* the pull: the first write sends the header with status 200.
ProgressWrite(r, ev) ==
    /\ rpc[r] = "pulling"
    /\ Len(hbody[r]) < MaxEvents
    /\ ClientMayWrite(hbody[r], ev)
    /\ hbody' = [hbody EXCEPT ![r] = Append(hbody[r], ev)]
    /\ hstatus' = [hstatus EXCEPT ![r] = WriteHeader(hstatus[r], 200)]
    /\ UNCHANGED <<memCheckEnabled, hpc, ignoreCheck, est, pullVars, exceptCreate>>

\* The distribution client returns nil exactly when its last event was the
\* success event.
ClientResultMatches(body, res) ==
    (res = "nil") <=> (Len(body) > 0 /\ body[Len(body)] = "success")

\* distributionClient.PullModel returns to PullModel, which returns.
CreatePullReturns(r) ==
    /\ hpc[r] = "pull"
    /\ PullReturns(r)
    /\ ClientResultMatches(hbody[r], rres'[r])

\* The kinds of error a pull fails with, and the status handleCreateModel
\* answers each with: it tells four apart with errors.Is, and answers
\* the others, ErrUnsupportedMediaType among them, with 500.
PullErrorStatus ==
    [ErrInvalidReference |-> 400, ErrUnauthorized |-> 401, ErrModelNotFound |-> 404,
     ErrUnsupportedFormat |-> 415, ErrUnsupportedMediaType |-> 500, other |-> 500]

LogsEveryErrorAsWarning(res, class) == IF res = "nil" THEN "none" ELSE "warn"

\* The level at which the handler logs the error PullModel returned: Infof
\* for a cancelled or timed out request, Warnf for the errors it names,
\* nothing for the others.
PullErrorLog(res, class) ==
    CASE res \in {"Canceled", "ctxerr"} -> "info"
      [] res = "nil" -> "none"
      [] class \in {"ErrInvalidReference", "ErrUnauthorized", "ErrModelNotFound",
                    "ErrUnsupportedFormat"} -> "warn"
      [] OTHER -> "none"

\* The classes an error returned by PullModel can fall in.
ErrorClasses(res) ==
    IF res = "pullerr" THEN DOMAIN PullErrorStatus ELSE {"other"}

\* PullModel has returned err: nothing is written for nil, context.Canceled
\* and context.DeadlineExceeded; every other error goes through http.Error.
CreateMapError(r, class) ==
    /\ hpc[r] = "pull"
    /\ rpc[r] = "done"
    /\ class \in ErrorClasses(rres[r])
    /\ IF rres[r] \in {"nil", "Canceled", "ctxerr"}
       THEN /\ hpc' = [hpc EXCEPT ![r] = "replied"]
            /\ UNCHANGED <<hstatus, hbody>>
       ELSE HttpError(r, PullErrorStatus[class])
    /\ herr' = [herr EXCEPT ![r] = IF rres[r] = "pullerr" THEN class ELSE rres[r]]
    /\ hlog' = [hlog EXCEPT ![r] = PullErrorLog(rres[r], class)]
    /\ UNCHANGED <<memCheckEnabled, ignoreCheck, est, pullVars, exceptCreateAndLog>>

\* The handler's call of PullModel is over.
CreateEndsPull(r) ==
    /\ hpc[r] = "replied"
    /\ NextRequest(r)

HandlerOver(r) == hpc[r] = "rejected" \/ (hpc[r] = "replied" /\ rpc[r] = "idle")

\* handleCreateModel returns; the next request can come.
CreateReturns(r) ==
    /\ HandlerOver(r)
    /\ hpc' = [hpc EXCEPT ![r] = "idle"]
    /\ ignoreCheck' = [ignoreCheck EXCEPT ![r] = FALSE]
    /\ est' = [est EXCEPT ![r] = NoEstimate]
    /\ hstatus' = [hstatus EXCEPT ![r] = NoStatus]
    /\ hbody' = [hbody EXCEPT ![r] = <<>>]
    /\ herr' = [herr EXCEPT ![r] = "none"]
    /\ hlog' = [hlog EXCEPT ![r] = "none"]
    /\ UNCHANGED <<memCheckEnabled, pullVars, exceptCreateAndLog>>

\* ========================================================================
\* Progress of the layers of one pull
\* ========================================================================

\* Number of layers of the model being pulled.
NumLayers == 2

\* Size of every layer, in bytes.
LayerSize == 2

\* Most progress events sent during the pull.
MaxStream == 3

Layers == 1..NumLayers

InitProgress ==
    /\ lstarted = [l \in Layers |-> FALSE]
    /\ lstart = [l \in Layers |-> 0]
    /\ ltotal = [l \in Layers |-> 0]
    /\ pstream = <<>>
    /\ pnext = 0
    /\ layerProgress = [l \in Layers |-> 0]

ReaderStartsAtZero(incompleteSize) == 0

\* if incompleteSize > 0 { NewReaderWithOffset(lr, updates, incompleteSize) }
\* else { NewReader(lr, updates) }: the count the progress reader starts at.
ReaderStart(incompleteSize) == IF incompleteSize > 0 THEN incompleteSize ELSE 0

\* writeLayer for layer l, whose .incomplete file holds incompleteSize bytes.
writeLayerReader(l, incompleteSize) ==
    /\ ~lstarted[l]
    /\ lstarted' = [lstarted EXCEPT ![l] = TRUE]
    /\ lstart' = [lstart EXCEPT ![l] = incompleteSize]
    /\ ltotal' = [ltotal EXCEPT ![l] = ReaderStart(incompleteSize)]
    /\ UNCHANGED <<pstream, pnext, layerProgress, exceptProgress>>

\* The progress reader of layer l reads n more bytes (io.Copy in WriteBlob),
\* adds them to its count and sends the count as an update, unless the
\* channel of updates is full and the update is dropped.
ProgressRead(l, n, sent) ==
    /\ lstarted[l]
    /\ ltotal[l] + n <= LayerSize
    /\ ltotal' = [ltotal EXCEPT ![l] = ltotal[l] + n]
    /\ IF sent /\ Len(pstream) < MaxStream
       THEN pstream' = Append(pstream, [id |-> l, current |-> ltotal[l] + n])
       ELSE UNCHANGED pstream
    /\ UNCHANGED <<lstarted, lstart, pnext, layerProgress, exceptProgress>>

\* displayProgressSimple reads the next progress line:
\* layerProgress[layerID] = progressMsg.Layer.Current
DisplayProgressLine ==
    /\ pnext < Len(pstream)
    /\ pnext' = pnext + 1
    /\ layerProgress' = [layerProgress EXCEPT ![pstream[pnext + 1].id] = pstream[pnext + 1].current]
    /\ UNCHANGED <<lstarted, lstart, ltotal, pstream, exceptProgress>>

\* ========================================================================
\* desktop.DisplayProgress and displayProgressSimple
\* ========================================================================

\* Most lines of a progress stream as sent.
MaxLines == 2

\* Most lines inserted into it.
MaxInserted == 2

\* bufio.MaxScanTokenSize: the longest line a bufio.Scanner returns.
MaxScanTokenSize == 65536

\* The lines the server sends: progress, success and error messages.
\* A line is its length in bytes, the type its JSON decodes to ("" when
\* json.Unmarshal fails) and its message.
ProtocolLines ==
    { [len |-> 80, type |-> "progress", msg |-> ""],
      [len |-> 40, type |-> "success", msg |-> "pulled"],
      [len |-> 41, type |-> "success", msg |-> "up to date"],
      [len |-> 40, type |-> "error", msg |-> "failed"] }

\* Lines that carry nothing: the empty line, and lines that do not parse,
\* short and long.
JunkLines ==
    { [len |-> 0, type |-> "", msg |-> ""],
      [len |-> 7, type |-> "", msg |-> ""],
      [len |-> 65535, type |-> "", msg |-> ""],
      [len |-> 65536, type |-> "", msg |-> ""] }

NoResult == [msg |-> "", shown |-> FALSE, err |-> "nil"]

\* scanner.Scan() fails on a line that does not fit its buffer, and
\* scanner.Err() is then bufio.ErrTooLong.
TooLong(line) == line.len >= MaxScanTokenSize

\* progressLine == "" || json.Unmarshal(...) != nil: the line is skipped.
Skipped(line) == line.len = 0 \/ line.type = ""

RECURSIVE ScanLines(_, _, _, _, _)
\* The loop over scanner.Scan() of DisplayProgress (terminal) and
\* displayProgressSimple, from line i on, with the locals finalMessage and
\* progressShown; failing tells that writes to the display pipe fail.
ScanLines(lines, i, finalMessage, progressShown, failing) ==
    IF i > Len(lines)
    THEN [msg |-> finalMessage, shown |-> progressShown,
          err |-> IF failing THEN "display" ELSE "nil"]
    ELSE IF TooLong(lines[i])
    THEN [msg |-> "", shown |-> FALSE, err |-> "token too long"]
    ELSE IF Skipped(lines[i])
    THEN ScanLines(lines, i + 1, finalMessage, progressShown, failing)
    ELSE IF lines[i].type = "progress"
    THEN IF failing
         THEN [msg |-> "", shown |-> FALSE, err |-> "display"]
         ELSE ScanLines(lines, i + 1, finalMessage, TRUE, failing)
    ELSE IF lines[i].type = "success"
    THEN ScanLines(lines, i + 1, lines[i].msg, progressShown, failing)
    ELSE IF lines[i].type = "error"
    THEN [msg |-> "", shown |-> FALSE, err |-> lines[i].msg]
    ELSE ScanLines(lines, i + 1, finalMessage, progressShown, failing)

displayProgressSimple(lines) == ScanLines(lines, 1, "", FALSE, FALSE)

\* DisplayProgress(body, printer)
DisplayProgress(lines, isTerminal, displayErr) ==
    IF ~isTerminal
    THEN displayProgressSimple(lines)
    ELSE ScanLines(lines, 1, "", FALSE, displayErr)

\* Client.Pull and Client.Push after a 200: what they return for the result
\* of DisplayProgress on the body.
ClientPull(lines, isTerminal, displayErr) ==
    LET shownResult == DisplayProgress(lines, isTerminal, displayErr)
    IN  IF shownResult.err # "nil"
        THEN [msg |-> "", shown |-> shownResult.shown, err |-> shownResult.err]
        ELSE shownResult

\* The sequence s with x inserted after its first k elements.
InsertAt(s, k, x) == SubSeq(s, 1, k) \o <<x>> \o SubSeq(s, k + 1, Len(s))

DisplayUnused ==
    /\ dTerminal = FALSE
    /\ dDisplayErr = FALSE
    /\ dBase = <<>>
    /\ dStream = <<>>
    /\ dDone = FALSE
    /\ dRes = NoResult
    /\ dBaseRes = NoResult

\* Any stream of protocol lines, shown on any output.
InitDisplay ==
    /\ dTerminal \in BOOLEAN
    /\ dDisplayErr \in BOOLEAN
    /\ dBase \in UNION {[1..n -> ProtocolLines] : n \in 0..MaxLines}
    /\ dStream = dBase
    /\ dDone = FALSE
    /\ dRes = NoResult
    /\ dBaseRes = NoResult

\* A line that carries nothing is put into the stream after its first k lines.
InsertLine(k, line) ==
    /\ ~dDone
    /\ Len(dStream) < Len(dBase) + MaxInserted
    /\ k \in 0..Len(dStream)
    /\ dStream' = InsertAt(dStream, k, line)
    /\ UNCHANGED <<dTerminal, dDisplayErr, dBase, dDone, dRes, dBaseRes, exceptDisplay>>

\* DisplayProgress runs on the stream.
RunDisplayProgress ==
    /\ ~dDone
    /\ dDone' = TRUE
    /\ dRes' = DisplayProgress(dStream, dTerminal, dDisplayErr)
    /\ dBaseRes' = DisplayProgress(dBase, dTerminal, dDisplayErr)
    /\ UNCHANGED <<dTerminal, dDisplayErr, dBase, dStream, exceptDisplay>>

\* ========================================================================
\* Model references: NormalizeModelName, the local index, the resolvers
\* ========================================================================

\* A reference is written as the sequence of its parts: names and the
\* separators "/", ":" and "@".  A name holding a dot is a registry host.

\* defaultOrg = "ai", defaultTag = "latest"
defaultOrg == "ai"

defaultTag == "latest"

\* strings.Contains(name, ".") for a single part.
HasDot(part) ==
    part \in {"docker.io", "index.docker.io", "hf.co", "registry.local", "registry.example.com",
              "llama3.2"}

\* strings.ToLower of a single part.
LowerPart(part) ==
    CASE part = "Org" -> "org"
      [] part = "M" -> "m"
      [] part = "Q4" -> "q4"
      [] OTHER -> part

\* strings.ToLower(s)
ToLower(s) == [i \in 1..Len(s) |-> LowerPart(s[i])]

\* strings.HasPrefix(s, prefix)
HasPrefix(s, prefix) == Len(s) >= Len(prefix) /\ SubSeq(s, 1, Len(prefix)) = prefix

\* strings.Contains(s, sep) for a separator
Contains(s, sep) == \E i \in 1..Len(s) : s[i] = sep

\* strings.Index(s, sep): the first position of sep, 0 when there is none.
Index(s, sep) ==
    IF Contains(s, sep) THEN CHOOSE i \in 1..Len(s) : s[i] = sep /\ \A j \in 1..(i - 1) : s[j] # sep
    ELSE 0

\* strings.LastIndex(s, sep): the last position of sep, 0 when there is none.
LastIndex(s, sep) ==
    IF Contains(s, sep)
    THEN CHOOSE i \in 1..Len(s) : s[i] = sep /\ \A j \in (i + 1)..Len(s) : s[j] # sep
    ELSE 0

\* s[:i-1] and s[i+1:] around position i
Before(s, i) == SubSeq(s, 1, i - 1)

After(s, i) == SubSeq(s, i + 1, Len(s))

\* firstSlash > 0 && strings.Contains(model[:firstSlash], ".")
HasRegistry(model) ==
    /\ Index(model, "/") > 1
    /\ \E i \in 1..(Index(model, "/") - 1) : HasDot(model[i])

NormalizeKeepsShorthand(model) == model

\* NormalizeModelName(model)
NormalizeModelName(model) ==
    IF model = <<>> THEN model
    ELSE LET lowered == IF HasPrefix(model, <<"hf.co", "/">>) THEN ToLower(model) ELSE model
             colon == Index(lowered, ":")
             nameWithOrg == IF colon > 0 THEN Before(lowered, colon) ELSE lowered
             tag == IF colon > 0 THEN After(lowered, colon) ELSE <<defaultTag>>
         IN  IF HasRegistry(lowered)
             THEN IF ~Contains(lowered, ":") THEN lowered \o <<":", defaultTag>> ELSE lowered
             ELSE (IF ~Contains(nameWithOrg, "/")
                   THEN <<defaultOrg, "/">> \o nameWithOrg
                   ELSE nameWithOrg) \o <<":">> \o tag

\* normalizeHuggingFaceModelName(model) of the CLI
normalizeHuggingFaceModelName(model) ==
    IF HasPrefix(model, <<"hf.co", "/">>) THEN ToLower(model) ELSE model

\* Model IDs: "sha256:" followed by the hex digest, whose first 12
\* characters are one part and the remainder another.
ID1 == <<"sha256", ":", "aaaaaaaaaaaa", "1111">>

ID2 == <<"sha256", ":", "bbbbbbbbbbbb", "2222">>

\* id[7:19]
ShortID(id) == <<id[3]>>

\* strings.TrimPrefix(id, "sha256:")
TrimSha256(id) == IF HasPrefix(id, <<"sha256", ":">>) THEN SubSeq(id, 3, Len(id)) ELSE id

RECURSIVE TrimSlashes(_)
\* strings.Trim(s, "/")
TrimSlashes(s) ==
    IF s # <<>> /\ s[1] = "/" THEN TrimSlashes(Tail(s))
    ELSE IF s # <<>> /\ s[Len(s)] = "/" THEN TrimSlashes(SubSeq(s, 1, Len(s) - 1))
    ELSE s

\* The least element of a non-empty set of positions.
FirstOf(S) == CHOOSE i \in S : \A j \in S : i <= j

\* A result of a lookup: "found" with the model's ID, "notfound"
\* (ErrModelNotFound) or "error" (any other error).
Found(id) == [res |-> "found", id |-> id]

NotFound == [res |-> "notfound", id |-> <<>>]

\* The call does not return: a run-time panic ends the process.
Panics == [res |-> "panic", id |-> <<>>]

OtherError == [res |-> "error", id |-> <<>>]

\* The local index: a reference names a tag under the default registry and
\* with the default tag when it has none; no default organization is added.
IndexTagKey(ref) ==
    LET r == IF Len(ref) > 2 /\ ref[1] \in {"docker.io", "index.docker.io"} /\ ref[2] = "/"
             THEN SubSeq(ref, 3, Len(ref)) ELSE ref
    IN  IF Contains(r, ":") \/ Contains(r, "@") THEN r ELSE r \o <<":", defaultTag>>

\* The local index matches a reference against a model: its ID in full, the
\* first 12 characters of its hex, its hex, one of its tags, or its digest.
IndexMatches(model, ref) ==
    \/ ref = model.id
    \/ ref = ShortID(model.id)
    \/ ref = TrimSha256(model.id)
    \/ \E j \in 1..Len(model.tags) : IndexTagKey(model.tags[j]) = IndexTagKey(ref)
    \/ Contains(ref, "@") /\ After(ref, Index(ref, "@")) = model.id

\* distributionClient.GetModel(ref), as called by Manager.GetModel.
GetModel(ms, ref) ==
    LET hits == {i \in 1..Len(ms) : IndexMatches(ms[i], ref)}
    IN  IF hits = {} THEN NotFound ELSE Found(ms[FirstOf(hits)].id)

\* The name part of a tag: tag[:LastIndex(tag, ":")], then what follows
\* its last "/".
NamePart(tag) ==
    LET v == LastIndex(tag, ":")
        tagWithoutVersion == IF v > 0 THEN Before(tag, v) ELSE tag
        sl == LastIndex(tagWithoutVersion, "/")
    IN  IF sl > 0 THEN After(tagWithoutVersion, sl) ELSE tagWithoutVersion

LastOf(S) == CHOOSE i \in S : \A j \in S : i >= j

\* The model at which the loops over models and tags return.
FirstHit(S) == FirstOf(S)

\* findModelByPartialName(m, modelRef); listFails: ListModels returns an error.
findModelByPartialName(ms, modelRef, listFails) ==
    LET hits == {i \in 1..Len(ms) :
                    \E j \in 1..Len(ms[i].tags) : NamePart(ms[i].tags[j]) = modelRef}
    IN  IF listFails THEN OtherError
        ELSE IF hits = {} THEN NotFound
        ELSE Found(ms[FirstHit(hits)].id)

\* The characters of the parts that model IDs and listed tags are made of.
CharCodes(part) ==
    CASE part = "/" -> <<47>>
      [] part = ":" -> <<58>>
      [] part = "<none>" -> <<60, 110, 111, 110, 101, 62>>
      [] part = "a" -> <<97>>
      [] part = "B" -> <<66>>
      [] part = "b" -> <<98>>
      [] part = "q4" -> <<113, 52>>
      [] part = "Q8" -> <<81, 56>>
      [] part = "ai" -> <<97, 105>>
      [] part = "latest" -> <<108, 97, 116, 101, 115, 116>>
      [] part = "sha256" -> <<115, 104, 97, 50, 53, 54>>
      [] part = "abc" -> <<97, 98, 99>>

RECURSIVE Characters(_)
\* The characters of a string given by its parts.
Characters(s) == IF s = <<>> THEN <<>> ELSE CharCodes(Head(s)) \o Characters(Tail(s))

\* strings.ToLower, character by character
LowerCharacters(cs) == [i \in 1..Len(cs) |-> IF cs[i] >= 65 /\ cs[i] <= 90 THEN cs[i] + 32 ELSE cs[i]]

RECURSIVE StringLess(_, _)
\* a < b on Go strings
StringLess(a, b) ==
    IF b = <<>> THEN FALSE
    ELSE IF a = <<>> THEN TRUE
    ELSE IF Head(a) # Head(b) THEN Head(a) < Head(b)
    ELSE StringLess(Tail(a), Tail(b))

\* len of a model ID: a part of twelve hex digits, the remaining 52 of the
\* 64, or a part spelled out in CharCodes.
IDLength(id) ==
    LET partLen(part) ==
            CASE part \in {"aaaaaaaaaaaa", "bbbbbbbbbbbb", "cccccccccccc"} -> 12
              [] part \in {"1111", "2222", "3333"} -> 52
              [] OTHER -> Len(CharCodes(part))
        sum[i \in 0..Len(id)] == IF i = 0 THEN 0 ELSE sum[i - 1] + partLen(id[i])
    IN  sum[Len(id)]

\* A model ID of ten characters.
ShortModelID == <<"sha256", ":", "abc">>

\* The index expression m.ID[7:19] is in range.
SliceInRange(id) == IDLength(id) >= 19

SliceAlwaysInRange(id) == TRUE

\* Client.fullModelID(id) over the listing of GET /models. The loop takes
\* m.ID[7:19] of each model it comes to, and the run-time panics at the
\* first whose ID is too short for it.
fullModelID(ms, id) ==
    LET hits == {i \in 1..Len(ms) :
                    /\ SliceInRange(ms[i].id)
                    /\ \/ ShortID(ms[i].id) = id
                       \/ TrimSha256(ms[i].id) = id
                       \/ ms[i].id = id
                       \/ \E j \in 1..Len(ms[i].tags) : ms[i].tags[j] = id
                       \/ \E j \in 1..Len(ms[i].tags) :
                             NormalizeModelName(ms[i].tags[j]) = NormalizeModelName(id)}
        outOfRange == {i \in 1..Len(ms) : ~SliceInRange(ms[i].id)}
    IN  IF hits \cup outOfRange = {} THEN NotFound
        ELSE IF FirstOf(hits \cup outOfRange) \in outOfRange THEN Panics
        ELSE Found(ms[FirstOf(hits)].id)

\* The model argument Client.Inspect puts in the request path.
InspectPath(ms, model) ==
    LET hf == normalizeHuggingFaceModelName(model)
    IN  IF /\ hf # <<>>
           /\ ~Contains(TrimSlashes(hf), "/")
           /\ ~Contains(hf, ":")
           /\ ~Contains(hf, "@")
           /\ fullModelID(ms, hf).res = "found"
        THEN fullModelID(ms, hf).id
        ELSE hf

\* References a user types.
UserRefs ==
    { <<"m">>, <<"m", ":", "latest">>, <<"ai", "/", "m">>, <<"ai", "/", "m", ":", "latest">>,
      <<"docker.io", "/", "ai", "/", "m">>, <<"docker.io", "/", "ai", "/", "m", ":", "latest">>,
      ID1, ShortID(ID1), TrimSha256(ID1),
      <<"nothing">>, <<"m", ":", "v1">>, <<"myorg", "/", "m">>,
      <<"hf.co", "/", "Org", "/", "M">>, <<"m", "@">> \o ID1 }

\* Listings of the local store.
Stores ==
    { <<>>,
      << [id |-> ID1, tags |-> << <<"ai", "/", "m", ":", "latest">> >>] >>,
      << [id |-> ID1, tags |-> << <<"myorg", "/", "m", ":", "v1">> >>],
         [id |-> ID2, tags |-> << <<"ai", "/", "n", ":", "latest">>,
                                  <<"other", "/", "m", ":", "latest">> >>] >>,
      << [id |-> ID2, tags |-> << <<"ai", "/", "n", ":", "latest">> >>],
         [id |-> ID1, tags |-> << <<"hf.co", "/", "org", "/", "m", ":", "latest">>,
                                  <<"ai", "/", "m", ":", "latest">> >>] >> }

NoResponse == [status |-> NoStatus, id |-> <<>>]

RefUnused ==
    /\ models = <<>>
    /\ uref = <<>>
    /\ gref = <<>>
    /\ gremote = FALSE
    /\ gpc = "idle"
    /\ gtrace = <<>>
    /\ gres = NoResponse
    /\ regCalls = <<>>

InitRef ==
    /\ models \in Stores
    /\ uref = <<>>
    /\ gref = <<>>
    /\ gremote = FALSE
    /\ gpc = "idle"
    /\ gtrace = <<>>
    /\ gres = NoResponse
    /\ regCalls = <<>>

\* Client.Inspect(model, remote) sends GET /models/<path>.
ClientInspect(model, remote) ==
    /\ gpc = "idle"
    /\ uref' = model
    /\ gref' = InspectPath(models, model)
    /\ gremote' = remote
    /\ gpc' = "request"
    /\ UNCHANGED <<models, gtrace, gres, regCalls, exceptRef>>

\* Another client sends GET /models/<ref> as it is.
DirectGet(ref, remote) ==
    /\ gpc = "idle"
    /\ uref' = ref
    /\ gref' = ref
    /\ gremote' = remote
    /\ gpc' = "request"
    /\ UNCHANGED <<models, gtrace, gres, regCalls, exceptRef>>

\* The status handleGetModel answers a lookup result with.
StatusOf(res) ==
    CASE res = "found" -> 200
      [] res = "notfound" -> 404
      [] OTHER -> 500

Respond(r) ==
    /\ gres' = [status |-> StatusOf(r.res), id |-> r.id]
    /\ gpc' = "done"

\* handleGetModel up to the choice between the remote and the local lookup.
handleGetModel(registryNil) ==
    /\ gpc = "request"
    /\ IF gremote /\ registryNil
       THEN gres' = [status |-> 503, id |-> <<>>] /\ gpc' = "done"
       ELSE gpc' = (IF gremote THEN "remote" ELSE "tier1") /\ UNCHANGED gres
    /\ UNCHANGED <<models, uref, gref, gremote, gtrace, regCalls, exceptRef>>

\* getRemoteModel(r.Context(), m, NormalizeModelName(modelRef))
getRemoteModel(r) ==
    /\ gpc = "remote"
    /\ regCalls' = <<[op |-> "Model", ref |-> NormalizeModelName(gref)]>>
    /\ Respond(r)
    /\ UNCHANGED <<models, uref, gref, gremote, gtrace, exceptRef>>

ContinuesAfterAnyError(res) == res # "found"

\* err != nil && errors.Is(err, distribution.ErrModelNotFound)
ContinuesAfter(res) == res = "notfound"

\* A lookup of tier t with argument ref returned r.
Consulted(t, ref, r) == gtrace' = Append(gtrace, [tier |-> t, ref |-> ref, res |-> r.res, id |-> r.id])

\* getLocalModel(m, modelRef); fails: it returns an error other than
\* ErrModelNotFound.
LocalAsGiven(fails) ==
    LET r == IF fails THEN OtherError ELSE GetModel(models, gref)
    IN  /\ gpc = "tier1"
        /\ Consulted(1, gref, r)
        /\ IF ContinuesAfter(r.res)
           THEN /\ gpc' = (IF NormalizeModelName(gref) # gref THEN "tier2" ELSE "tier3")
                /\ UNCHANGED gres
           ELSE Respond(r)
        /\ UNCHANGED <<models, uref, gref, gremote, regCalls, exceptRef>>

\* getLocalModel(m, normalizedRef)
LocalNormalized(fails) ==
    LET r == IF fails THEN OtherError ELSE GetModel(models, NormalizeModelName(gref))
    IN  /\ gpc = "tier2"
        /\ Consulted(2, NormalizeModelName(gref), r)
        /\ IF ContinuesAfter(r.res)
           THEN gpc' = "tier3" /\ UNCHANGED gres
           ELSE Respond(r)
        /\ UNCHANGED <<models, uref, gref, gremote, regCalls, exceptRef>>

\* findModelByPartialName(m, modelRef)
LocalPartialName(fails) ==
    LET r == findModelByPartialName(models, gref, fails)
    IN  /\ gpc = "tier3"
        /\ Consulted(3, gref, r)
        /\ Respond(r)
        /\ UNCHANGED <<models, uref, gref, gremote, regCalls, exceptRef>>

\* handleCreateModel: request.From = NormalizeModelName(request.From), then
\* m.PullModel(request.From, r, w).
handleCreateModelFrom(from) ==
    /\ gpc = "idle"
    /\ uref' = from
    /\ regCalls' = <<[op |-> "PullModel", ref |-> NormalizeModelName(from)]>>
    /\ gpc' = "done"
    /\ UNCHANGED <<models, gref, gremote, gtrace, gres, exceptRef>>

\* handleModelAction: POST /models/<model>/<action>.  The tag action works
\* on the local store; the push action calls m.PushModel(model, r, w)
\* unless the distribution client is missing (nilClient).
handleModelAction(model, action, nilClient) ==
    /\ gpc = "idle"
    /\ uref' = model
    /\ gpc' = "done"
    /\ IF action = "push" /\ ~nilClient
       THEN regCalls' = <<[op |-> "PushModel", ref |-> model]>>
       ELSE UNCHANGED regCalls
    /\ UNCHANGED <<models, gref, gremote, gtrace, gres, exceptRef>>

\* The handler has returned; the next request can come.
RequestOver ==
    /\ gpc = "done"
    /\ gpc' = "idle"
    /\ uref' = <<>>
    /\ gref' = <<>>
    /\ gremote' = FALSE
    /\ gtrace' = <<>>
    /\ gres' = NoResponse
    /\ regCalls' = <<>>
    /\ UNCHANGED <<models, exceptRef>>

\* ========================================================================
\* Reference normalization at pull and run time, and names for display
\* ========================================================================

\* strings.HasSuffix(s, suffix)
HasSuffix(s, suffix) ==
    Len(s) >= Len(suffix) /\ SubSeq(s, Len(s) - Len(suffix) + 1, Len(s)) = suffix

\* strings.TrimPrefix(s, prefix)
TrimPrefix(s, prefix) == IF HasPrefix(s, prefix) THEN SubSeq(s, Len(prefix) + 1, Len(s)) ELSE s

\* strings.TrimSuffix(s, suffix)
TrimSuffix(s, suffix) == IF HasSuffix(s, suffix) THEN SubSeq(s, 1, Len(s) - Len(suffix)) ELSE s

\* name.DefaultRegistry
DefaultRegistry == <<"index.docker.io">>

\* Values of the DEFAULT_REGISTRY environment variable.
RegistryEnvs ==
    { <<>>, <<"docker.io">>, <<"index.docker.io">>, <<"registry.example.com">>,
      <<"registry.local", ":", "5000">>, <<"registry.local", ":", "5000", "/">> }

\* getDefaultRegistry()
getDefaultRegistry(env) == IF env # <<>> THEN env ELSE DefaultRegistry

\* The registry prefixes stripDefaultsFromModelName looks for.
defaultRegistries(env) ==
    LET defaultRegistry == getDefaultRegistry(env)
    IN  IF /\ defaultRegistry # <<>>
           /\ defaultRegistry # <<"index.docker.io">>
           /\ defaultRegistry # <<"docker.io">>
        THEN << IF HasSuffix(defaultRegistry, <<"/">>) THEN defaultRegistry
                ELSE defaultRegistry \o <<"/">> >>
        ELSE << <<"index.docker.io", "/">>, <<"docker.io", "/">> >>

\* The loop over defaultRegistries: the first prefix found is removed.
TrimFirstRegistry(model, regs) ==
    LET hits == {i \in 1..Len(regs) : HasPrefix(model, regs[i])}
    IN  IF hits = {} THEN model ELSE TrimPrefix(model, regs[FirstOf(hits)])

\* stripDefaultsFromModelName(model) under DEFAULT_REGISTRY = env
stripDefaultsFromModelName(model, env) ==
    LET noReg == TrimFirstRegistry(model, defaultRegistries(env))
        noOrg == IF HasPrefix(noReg, <<defaultOrg, "/">>)
                 THEN TrimPrefix(noReg, <<defaultOrg, "/">>) ELSE noReg
    IN  IF HasSuffix(noOrg, <<":", defaultTag>>)
        THEN TrimSuffix(noOrg, <<":", defaultTag>>) ELSE noOrg

\* References given to pull and run, and names given to display.
NameInputs ==
    { <<"m">>, <<"llama3.2">>, <<"m", ":", "v1">>, <<"myorg", "/", "m">>,
      <<"ai", "/", "m">>, <<"ai", "/", "m", ":", "latest">>, <<"ai", "/", "m", ":", "v1">>,
      <<"myorg", "/", "m", ":", "v1">>, <<"myorg", "/", "m", ":", "latest">>,
      <<"hf.co", "/", "Org", "/", "M">>, <<"hf.co", "/", "org", "/", "m">>,
      <<"hf.co", "/", "org", "/", "m", ":", "latest">>, <<"hf.co", "/", "Org", "/", "M", ":", "Q4">>,
      <<"registry.example.com", "/", "m">>, <<"registry.example.com", "/", "ai", "/", "m", ":", "latest">>,
      <<"registry.local", ":", "5000", "/", "ai", "/", "m">>,
      <<"registry.local", ":", "5000", "/", "ai", "/", "m", ":", "latest">>,
      <<"docker.io", "/", "ai", "/", "m", ":", "latest">>, <<"docker.io", "/", "myorg", "/", "m", ":", "latest">>,
      <<"index.docker.io", "/", "ai", "/", "m", ":", "v1">>, <<"docker.io", "/", "ai", "/", "m">>,
      <<"m", "@", "sha256", ":", "abc">>,
      <<"registry.example.com", "/", "ai", "/", "m", "@", "sha256", ":", "abc">> }

NameUnused ==
    /\ nameArg = <<>>
    /\ nameEnv = <<>>
    /\ nameOp = "none"
    /\ nameOut = <<>>
    /\ nameArg2 = <<>>
    /\ nameOut2 = <<>>

InitName ==
    /\ nameArg \in NameInputs
    /\ nameEnv \in RegistryEnvs
    /\ nameOp = "none"
    /\ nameOut = <<>>
    /\ nameArg2 = <<>>
    /\ nameOut2 = <<>>

\* The reference is normalized before the model is pulled and stored.
NormalizeForPull ==
    /\ nameOp = "none"
    /\ nameOut' = NormalizeModelName(nameArg)
    /\ nameOp' = "pulled"
    /\ UNCHANGED <<nameArg, nameEnv, nameArg2, nameOut2, exceptName>>

\* The reference given to run, which may be the stored one, is normalized
\* before the lookup.
NormalizeForRun(ref) ==
    /\ nameOp = "pulled"
    /\ nameArg2' = ref
    /\ nameOut2' = NormalizeModelName(ref)
    /\ nameOp' = "run"
    /\ UNCHANGED <<nameArg, nameEnv, nameOut, exceptName>>

\* The name is stripped of its defaults for display.
StripForDisplay ==
    /\ nameOp = "none"
    /\ nameOut' = stripDefaultsFromModelName(nameArg, nameEnv)
    /\ nameOp' = "stripped"
    /\ UNCHANGED <<nameArg, nameEnv, nameArg2, nameOut2, exceptName>>

\* ========================================================================
\* The manifest and tag index of the distribution client, and the handlers
\* that delete, tag and purge models
\* ========================================================================

\* The model packaged from ID1 with another config.
ID3 == <<"sha256", ":", "cccccccccccc", "3333">>

ModelIDs == {ID1, ID2, ID3}

NoModel == <<>>

\* The blobs of each model: ID1 and ID2 share a layer, and ID3 has the
\* layers of ID1 and a config of its own.
LayersOf(id) ==
    CASE id = ID1 -> {"layer1", "shared"}
      [] id = ID2 -> {"layer2", "shared"}
      [] id = ID3 -> {"layer1", "shared", "config3"}

AllBlobs == UNION {LayersOf(id) : id \in ModelIDs}

\* The tags of the index.
TagRefs == { <<"ai", "/", "m", ":", "latest">>, <<"ai", "/", "m", ":", "v1">> }

NoPull == [id |-> NoModel, tag |-> <<>>, step |-> "none"]

NoOperation ==
    [op |-> "none", force |-> FALSE, failed |-> FALSE, changed |-> FALSE, id |-> NoModel,
     tags |-> 0, missing |-> FALSE, src |-> <<>>, local |-> {}]

\* The store starts empty.
EmptyIndex ==
    /\ tagIndex = [t \in TagRefs |-> NoModel]
    /\ manifests = {}
    /\ blobs = {}
    /\ ipull = NoPull
    /\ istatus = NoStatus
    /\ ilast = NoOperation

\* The manager has a distribution client.
InitIndex == EmptyIndex /\ clientNil = FALSE

\* The tags that point at model id.
TagsOf(index, id) == {t \in TagRefs : index[t] = id}

\* The model a reference names in the index: a model ID whose manifest is
\* stored, or a tag.
ResolveRef(index, ms, ref) ==
    IF ref \in ms THEN ref
    ELSE IF ref \in TagRefs THEN index[ref]
    ELSE NoModel

\* The store as three parts.
StoreOf(index, ms, bs) == [tagIndex |-> index, manifests |-> ms, blobs |-> bs]

DropsEveryLayer(id, ms, bs) == bs \ LayersOf(id)

\* The blobs left when the manifest of id goes: those another stored
\* manifest refers to stay.
BlobsWithout(id, ms, bs) ==
    bs \ {b \in LayersOf(id) : \A other \in ms \ {id} : b \notin LayersOf(other)}

\* distributionClient.DeleteModel(ref, force): the result and the store
\* after it.
DeleteModel(index, ms, bs, ref, force) ==
    LET id == ResolveRef(index, ms, ref)
    IN  IF id = NoModel
        THEN [err |-> "ErrModelNotFound", store |-> StoreOf(index, ms, bs)]
        ELSE IF Cardinality(TagsOf(index, id)) > 1 /\ ~force
        THEN [err |-> "ErrConflict", store |-> StoreOf(index, ms, bs)]
        ELSE [err |-> "nil",
              store |-> StoreOf([t \in TagRefs |-> IF index[t] = id THEN NoModel ELSE index[t]],
                                ms \ {id},
                                BlobsWithout(id, ms, bs))]

\* distributionClient.Tag(source, target): the result and the index after it.
TagModel(index, ms, source, dest) ==
    LET id == ResolveRef(index, ms, source)
    IN  IF id = NoModel THEN [err |-> "ErrModelNotFound", index |-> index]
        ELSE IF dest \notin TagRefs THEN [err |-> "other", index |-> index]
        ELSE [err |-> "nil", index |-> [index EXCEPT ![dest] = id]]

\* Whether an operation changed the store.
Changed(index, ms, bs) == <<index, ms, bs>> # <<tagIndex, manifests, blobs>>

\* A pull of model id under tag begins: the blobs come first.
PullBegins(id, tag) ==
    /\ ipull = NoPull
    /\ ipull' = [id |-> id, tag |-> tag, step |-> "blobs"]
    /\ ~clientNil
    /\ ilast' = [NoOperation EXCEPT !.op = "pull"]
    /\ istatus' = NoStatus
    /\ UNCHANGED <<tagIndex, manifests, blobs, clientNil, exceptIndex>>

\* handlePackageModel up to WriteLightweightModel: the manifest of ID3
\* reuses the layers of the source and only its config is written.
handlePackageModel(from, tag) ==
    /\ ipull = NoPull
    /\ LET source == ResolveRef(tagIndex, manifests, NormalizeModelName(from))
           status == IF clientNil THEN 503
                     ELSE IF from = <<>> \/ tag = <<>> THEN 400
                     ELSE IF source = NoModel THEN 404
                     ELSE IF source # ID1 \/ tag \notin TagRefs THEN 500
                     ELSE NoStatus
       IN  /\ istatus' = status
           /\ ipull' = IF status = NoStatus
                       THEN [id |-> ID3, tag |-> tag, step |-> "blobs"]
                       ELSE NoPull
           /\ ilast' = [NoOperation EXCEPT !.op = "package"]
    /\ UNCHANGED <<tagIndex, manifests, blobs, clientNil, exceptIndex>>

\* One blob of the model is written to the store.
PullWritesBlob(b) ==
    /\ ipull.step = "blobs"
    /\ b \in LayersOf(ipull.id) \ blobs
    /\ blobs' = blobs \cup {b}
    /\ UNCHANGED <<tagIndex, manifests, ipull, istatus, ilast, clientNil, exceptIndex>>

\* With every blob in the store, the manifest is written.
PullWritesManifest ==
    /\ ipull.step = "blobs"
    /\ LayersOf(ipull.id) \subseteq blobs
    /\ manifests' = manifests \cup {ipull.id}
    /\ ipull' = [ipull EXCEPT !.step = "manifest"]
    /\ UNCHANGED <<tagIndex, blobs, istatus, ilast, clientNil, exceptIndex>>

\* With the manifest in the store, the tag is written to the index.
PullWritesIndex ==
    /\ ipull.step = "manifest"
    /\ tagIndex' = [tagIndex EXCEPT ![ipull.tag] = ipull.id]
    /\ ipull' = NoPull
    /\ istatus' = 200
    /\ UNCHANGED <<manifests, blobs, ilast, clientNil, exceptIndex>>

\* The pull or package fails or is cancelled where it is: what it wrote
\* stays.
PullAbandoned ==
    /\ ipull # NoPull
    /\ ipull' = NoPull
    /\ istatus' = 500
    /\ UNCHANGED <<tagIndex, manifests, blobs, ilast, clientNil, exceptIndex>>

\* strconv.ParseBool of the force query parameter; an error leaves force
\* false.
ParseForce(q) == q \in {"1", "true"}

ForceQueries == {"", "true", "false", "yes"}

ConflictAnsweredWith500(err) ==
    CASE err = "nil" -> 200
      [] err = "ErrModelNotFound" -> 404
      [] OTHER -> 500

\* The status handleDeleteModel answers with.
DeleteStatus(err) ==
    CASE err = "nil" -> 200
      [] err = "ErrModelNotFound" -> 404
      [] err = "ErrConflict" -> 409
      [] OTHER -> 500

\* What handleDeleteModel answers and leaves behind: the reference as given,
\* then normalized when it was not found and normalizing changes it. fails:
\* the client returns an error of another kind.
DeleteAnswer(modelRef, q, fails) ==
    IF clientNil
    THEN [status |-> 503, store |-> StoreOf(tagIndex, manifests, blobs),
          last |-> [NoOperation EXCEPT !.op = "delete"]]
    ELSE LET force == ParseForce(q)
             unchanged == StoreOf(tagIndex, manifests, blobs)
             first == IF fails THEN [err |-> "other", store |-> unchanged]
                      ELSE DeleteModel(tagIndex, manifests, blobs, modelRef, force)
             normalizedRef == NormalizeModelName(modelRef)
             again == first.err = "ErrModelNotFound" /\ normalizedRef # modelRef
             resp == IF again
                     THEN DeleteModel(tagIndex, manifests, blobs, normalizedRef, force)
                     ELSE first
             deleted == ResolveRef(tagIndex, manifests,
                                   IF again THEN normalizedRef ELSE modelRef)
         IN  [status |-> DeleteStatus(resp.err),
              store |-> resp.store,
              last |-> [NoOperation EXCEPT
                            !.op = "delete", !.force = force, !.failed = fails,
                            !.changed = resp.store # unchanged,
                            !.id = deleted,
                            !.tags = IF deleted = NoModel THEN 0
                                     ELSE Cardinality(TagsOf(tagIndex, deleted))]]

\* handleDeleteModel on DELETE /models/{name}?force=q
handleDeleteModel(modelRef, q, fails) ==
    /\ ipull = NoPull
    /\ LET answer == DeleteAnswer(modelRef, q, fails)
       IN  /\ tagIndex' = answer.store.tagIndex
           /\ manifests' = answer.store.manifests
           /\ blobs' = answer.store.blobs
           /\ istatus' = answer.status
           /\ ilast' = answer.last
    /\ UNCHANGED <<ipull, clientNil, exceptIndex>>

\* The tags of the index in the order of a listing.
TagOrder == << <<"ai", "/", "m", ":", "latest">>, <<"ai", "/", "m", ":", "v1">> >>

\* GET /models: the stored models with their tags.
Listing(index, ms) ==
    LET entry(id) == IF id \in ms
                     THEN <<[id |-> id, tags |-> SelectSeq(TagOrder, LAMBDA t : index[t] = id)]>>
                     ELSE <<>>
    IN  entry(ID1) \o entry(ID2) \o entry(ID3)

\* !strings.Contains(model, "/")
ExpandsToID(model) == ~Contains(model, "/")

\* The reference Client.Remove puts into the path of its DELETE request.
RemoveRef(arg) ==
    LET model == normalizeHuggingFaceModelName(arg)
        expanded == fullModelID(Listing(tagIndex, manifests), model)
    IN  IF ExpandsToID(model) /\ expanded.res = "found" THEN expanded.id ELSE model

\* strconv.FormatBool(force)
FormatBool(force) == IF force THEN "true" ELSE "false"

\* The references docker model rm is called with.
RemoveArgs == { <<"m", ":", "v1">>, <<"ai", "/", "m", ":", "v1">> }

\* Client.Remove([arg], force) and the handler's answer to its request.
ClientRemove(arg, force) ==
    /\ ipull = NoPull
    /\ LET answer == DeleteAnswer(RemoveRef(arg), FormatBool(force), FALSE)
       IN  /\ tagIndex' = answer.store.tagIndex
           /\ manifests' = answer.store.manifests
           /\ blobs' = answer.store.blobs
           /\ istatus' = answer.status
           /\ ilast' = [answer.last EXCEPT !.src = arg]
    /\ UNCHANGED <<ipull, clientNil, exceptIndex>>

OnlyRepoRequired(repo, tag) == repo = <<>>

\* repo == "" || tag == ""
MissingTagParams(repo, tag) == repo = <<>> \/ tag = <<>>

\* The tags handleTagModel finds for a reference the client did not find:
\* by ID when the reference looks like one, else by the name part of a tag.
TagSources(index, ms, model) ==
    LET byID == IF HasPrefix(model, <<"sha256", ":">>) \/ model \in {ShortID(id) : id \in ModelIDs}
                THEN {t \in TagRefs : /\ index[t] \in ms
                                      /\ \/ index[t] = model
                                         \/ HasPrefix(index[t], model)
                                         \/ ShortID(TrimSha256(index[t])) = model}
                ELSE {}
    IN  IF byID # {} THEN byID
        ELSE {t \in TagRefs : index[t] \in ms /\ NamePart(t) = model}

\* handleTagModel(w, r, model) with the query parameters repo and tag.
handleTagModel(model, repo, tag, fails) ==
    IF clientNil THEN {[status |-> 503, index |-> tagIndex]}
    ELSE IF MissingTagParams(repo, tag) THEN {[status |-> 400, index |-> tagIndex]}
    ELSE LET dest == repo \o <<":">> \o tag
             first == IF fails THEN [err |-> "other", index |-> tagIndex]
                      ELSE TagModel(tagIndex, manifests, model, dest)
         IN  IF first.err = "ErrModelNotFound"
             THEN IF TagSources(tagIndex, manifests, model) = {}
                  THEN {[status |-> 404, index |-> tagIndex]}
                  ELSE {LET second == TagModel(tagIndex, manifests, foundModelRef, dest)
                        IN  [status |-> IF second.err = "nil" THEN 201 ELSE 500,
                             index |-> second.index] :
                            foundModelRef \in TagSources(tagIndex, manifests, model)}
             ELSE {[status |-> IF first.err = "nil" THEN 201 ELSE 500, index |-> first.index]}

\* The status handlePushModel answers with, by the result of PushModel.
PushStatus(err) ==
    CASE err = "nil" -> 200
      [] err = "ErrInvalidReference" -> 400
      [] err = "ErrModelNotFound" -> 404
      [] err = "ErrUnauthorized" -> 401
      [] OTHER -> 500

ActionNames == {"tag", "push", "inspect"}

\* The stored models that a local GET /models/{src} answers with: src is
\* the ID of the model, the first 12 characters of its hex, one of its tags
\* (as given or normalized), or the name part of one of its tags.
LocalInspect(index, ms, src) ==
    {id \in ms :
        \/ id = src
        \/ ShortID(id) = src
        \/ \E t \in TagRefs :
              index[t] = id /\ (t = src \/ t = NormalizeModelName(src) \/ NamePart(t) = src)}

\* handleModelAction on POST /models/{name}/{action} with the query
\* parameters repo and tag. A push leaves the local store as it is.
handleModelActionOnIndex(model, action, repo, tag, fails) ==
    /\ ipull = NoPull
    /\ \E resp \in (CASE action = "tag" ->
                             handleTagModel(NormalizeModelName(model), repo, tag, fails)
                      [] action = "push" ->
                             {[status |-> IF clientNil THEN 503 ELSE PushStatus(err),
                               index |-> tagIndex] :
                                  err \in IF fails
                                          THEN {"ErrInvalidReference", "ErrUnauthorized", "other"}
                                          ELSE {IF ResolveRef(tagIndex, manifests, model) = NoModel
                                                THEN "ErrModelNotFound" ELSE "nil"}}
                      [] OTHER -> {[status |-> 404, index |-> tagIndex]}) :
          /\ tagIndex' = resp.index
          /\ istatus' = resp.status
          /\ ilast' = [NoOperation EXCEPT
                           !.op = action, !.failed = fails, !.src = model,
                           !.local = LocalInspect(tagIndex, manifests, model),
                           !.missing = (action = "tag" /\ (repo = <<>> \/ tag = <<>>)),
                           !.changed = resp.index # tagIndex,
                           !.id = ResolveRef(tagIndex, manifests, NormalizeModelName(model))]
    /\ UNCHANGED <<manifests, blobs, ipull, clientNil, exceptIndex>>

PurgeKeepsTags(fails) ==
    /\ ipull = NoPull
    /\ istatus' = IF clientNil THEN 503 ELSE IF fails THEN 500 ELSE 200
    /\ IF clientNil \/ fails
       THEN UNCHANGED <<tagIndex, manifests, blobs>>
       ELSE manifests' = {} /\ blobs' = {} /\ UNCHANGED tagIndex
    /\ ilast' = [NoOperation EXCEPT !.op = "purge"]
    /\ UNCHANGED <<ipull, clientNil, exceptIndex>>

\* handlePurge: ResetStore drops every tag, manifest and blob.
handlePurge(fails) ==
    /\ ipull = NoPull
    /\ istatus' = IF clientNil THEN 503 ELSE IF fails THEN 500 ELSE 200
    /\ IF clientNil \/ fails
       THEN UNCHANGED <<tagIndex, manifests, blobs>>
       ELSE /\ tagIndex' = [t \in TagRefs |-> NoModel]
            /\ manifests' = {}
            /\ blobs' = {}
    /\ ilast' = [NoOperation EXCEPT !.op = "purge"]
    /\ UNCHANGED <<ipull, clientNil, exceptIndex>>

\* handleCreateModel and handleLoadModel of a manager without distribution
\* client: the guard at their head.
handleWithoutClient(route) ==
    /\ ipull = NoPull
    /\ clientNil
    /\ istatus' = 503
    /\ ilast' = [NoOperation EXCEPT !.op = route]
    /\ UNCHANGED <<tagIndex, manifests, blobs, ipull, clientNil, exceptIndex>>

\* handleGetModels and handleOpenAIGetModels: the listing, or the error of
\* ListModels.
handleGetModels(route, fails) ==
    /\ ipull = NoPull
    /\ istatus' = IF clientNil THEN 503 ELSE IF fails THEN 500 ELSE 200
    /\ ilast' = [NoOperation EXCEPT !.op = route, !.failed = fails]
    /\ UNCHANGED <<tagIndex, manifests, blobs, ipull, clientNil, exceptIndex>>

\* getLocalModel: its error when the manager has no distribution client is
\* not ErrModelNotFound.
getLocalModel(name) ==
    IF clientNil THEN "unavailable"
    ELSE IF ResolveRef(tagIndex, manifests, name) = NoModel THEN "ErrModelNotFound"
    ELSE "nil"

\* handleGetModel: the status for the error of the lookup.
GetModelStatus(err) ==
    CASE err = "nil" -> 200
      [] err = "ErrModelNotFound" -> 404
      [] OTHER -> 500

\* handleGetModel on GET /models/{name} without remote: the reference as
\* given, then normalized, then by the name part of a tag.
handleGetModelLocal(modelRef) ==
    /\ ipull = NoPull
    /\ LET first == getLocalModel(modelRef)
           normalizedRef == NormalizeModelName(modelRef)
           second == IF first = "ErrModelNotFound" /\ normalizedRef # modelRef
                     THEN getLocalModel(normalizedRef) ELSE first
           err == IF second = "ErrModelNotFound"
                  THEN IF LocalInspect(tagIndex, manifests, modelRef) # {}
                       THEN "nil" ELSE "ErrModelNotFound"
                  ELSE second
       IN  /\ istatus' = GetModelStatus(err)
           /\ ilast' = [NoOperation EXCEPT
                            !.op = "get", !.src = modelRef,
                            !.local = IF clientNil THEN {}
                                      ELSE LocalInspect(tagIndex, manifests, modelRef)]
    /\ UNCHANGED <<tagIndex, manifests, blobs, ipull, clientNil, exceptIndex>>

\* handleOpenAIGetModel: the reference as given, then normalized.
handleOpenAIGetModel(modelRef) ==
    /\ ipull = NoPull
    /\ LET normalizedRef == NormalizeModelName(modelRef)
           found == \/ ResolveRef(tagIndex, manifests, modelRef) # NoModel
                    \/ ResolveRef(tagIndex, manifests, normalizedRef) # NoModel
       IN  /\ istatus' = IF clientNil THEN 503 ELSE IF found THEN 200 ELSE 404
           /\ ilast' = [NoOperation EXCEPT !.op = "openai get", !.src = modelRef]
    /\ UNCHANGED <<tagIndex, manifests, blobs, ipull, clientNil, exceptIndex>>

\* The references of the requests.
IndexRequestRefs ==
    TagRefs \cup { ID1, <<"m">>, <<"m", ":", "v1">>, <<"other">> }

\* The models named in POST /models/{name}/{action}.
ActionRefs == { <<"ai", "/", "m", ":", "latest">>, <<"m">>, ID1, ShortID(ID1) }

RepoNames == { <<"ai", "/", "m">>, <<>> }

TagNames == { <<"v1">>, <<>> }

\* ========================================================================
\* registry.GetDefaultRegistryOptions: options computed once per process
\* ========================================================================

\* Values of DEFAULT_REGISTRY and of INSECURE_REGISTRY; "" is unset.
DefaultRegistryValues == {"", "custom.registry.io", "other.registry.io"}

InsecureRegistryValues == {"", "true"}

RegistryEnv == [DEFAULT_REGISTRY : DefaultRegistryValues, INSECURE_REGISTRY : InsecureRegistryValues]

NoEnv == [DEFAULT_REGISTRY |-> "", INSECURE_REGISTRY |-> ""]

\* The options of an environment: name.WithDefaultRegistry when
\* DEFAULT_REGISTRY is set, name.Insecure when INSECURE_REGISTRY is true.
OptionsFor(env) ==
    (IF env.DEFAULT_REGISTRY # "" THEN <<[opt |-> "WithDefaultRegistry", arg |-> env.DEFAULT_REGISTRY]>>
     ELSE <<>>)
    \o (IF env.INSECURE_REGISTRY = "true" THEN <<[opt |-> "Insecure", arg |-> ""]>> ELSE <<>>)

\* The process has just started: the once-guard is open, nothing is cached,
\* no call has returned.
RegistryStart(env) ==
    [once |-> FALSE, defaultRegistryOpts |-> <<>>, env |-> env,
     firstEnv |-> NoEnv, calls |-> 0, returned |-> <<>>, wasReset |-> FALSE]

RegistryUnused == regState = RegistryStart(NoEnv)

InitRegistry == \E env \in RegistryEnv : regState = RegistryStart(env)

ComputesOnEveryCall(st) == TRUE

\* once.Do(f) runs f when the guard has not been used.
OnceRuns(st) == ~st.once

\* os.Setenv / os.Unsetenv
Setenv(env) ==
    /\ env # regState.env
    /\ regState' = [regState EXCEPT !.env = env]
    /\ UNCHANGED <<earlyVars, listState, pipe, backend>>

\* GetDefaultRegistryOptions()
GetDefaultRegistryOptions ==
    /\ LET runs == OnceRuns(regState)
           opts == IF runs THEN OptionsFor(regState.env) ELSE regState.defaultRegistryOpts
       IN  regState' = [regState EXCEPT
                            !.once = TRUE,
                            !.defaultRegistryOpts = opts,
                            !.firstEnv = IF regState.once THEN @ ELSE regState.env,
                            !.calls = IF @ < 2 THEN @ + 1 ELSE @,
                            !.returned = opts]
    /\ UNCHANGED <<earlyVars, listState, pipe, backend>>

\* resetOnceForTest()
resetOnceForTest ==
    /\ regState' = [regState EXCEPT !.once = FALSE, !.defaultRegistryOpts = <<>>,
                                    !.calls = 0, !.returned = <<>>, !.firstEnv = NoEnv,
                                    !.wasReset = TRUE]
    /\ UNCHANGED <<earlyVars, listState, pipe, backend>>

\* ========================================================================
\* commands.prettyPrintModels: the rows of docker model list
\* ========================================================================

\* The tags of the listed models.
ListedTags ==
    { <<"ai", "/", "a", ":", "latest">>, <<"ai", "/", "a", ":", "q4">>,
      <<"ai", "/", "B", ":", "latest">>, <<"ai", "/", "b", ":", "Q8">> }

\* The tag lists of a model: none, one, or one of these pairs.
ListedTagLists ==
    {<<>>} \cup {<<t>> : t \in ListedTags}
           \cup { << <<"ai", "/", "B", ":", "latest">>, <<"ai", "/", "a", ":", "latest">> >>,
                  << <<"ai", "/", "b", ":", "Q8">>, <<"ai", "/", "a", ":", "q4">> >>,
                  << <<"ai", "/", "a", ":", "q4">>, <<"ai", "/", "a", ":", "latest">> >> }

ListedModels == [ID : {ID1, ShortModelID}, Tags : ListedTagLists]

MaxListed == 2

NoneName == <<"<none>">>

\* The rows before sorting: one per tag, or one <none> row.
RowsOfModel(ms, i) ==
    IF ms[i].Tags = <<>>
    THEN <<[displayName |-> NoneName, tag |-> NoneName, model |-> i]>>
    ELSE [j \in 1..Len(ms[i].Tags) |->
              [displayName |-> stripDefaultsFromModelName(ms[i].Tags[j], <<>>),
               tag |-> ms[i].Tags[j], model |-> i]]

RECURSIVE DisplayRows(_, _)
DisplayRows(ms, i) == IF i > Len(ms) THEN <<>> ELSE RowsOfModel(ms, i) \o DisplayRows(ms, i + 1)

\* splitDisplayName
splitDisplayName(displayName) ==
    LET idx == LastIndex(displayName, ":")
    IN  IF idx # 0
        THEN [base |-> Before(displayName, idx), variant |-> After(displayName, idx)]
        ELSE [base |-> displayName, variant |-> <<>>]

LessByVariantOnly(ri, rj) ==
    StringLess(LowerCharacters(Characters(splitDisplayName(ri.displayName).variant)),
               LowerCharacters(Characters(splitDisplayName(rj.displayName).variant)))

\* The less function handed to sort.Slice.
RowLess(ri, rj) ==
    LET si == splitDisplayName(ri.displayName)
        sj == splitDisplayName(rj.displayName)
        baseILower == LowerCharacters(Characters(si.base))
        baseJLower == LowerCharacters(Characters(sj.base))
    IN  IF baseILower # baseJLower THEN StringLess(baseILower, baseJLower)
        ELSE IF si.variant = <<>> /\ sj.variant # <<>> THEN TRUE
        ELSE IF si.variant # <<>> /\ sj.variant = <<>> THEN FALSE
        ELSE StringLess(LowerCharacters(Characters(si.variant)),
                        LowerCharacters(Characters(sj.variant)))

\* The places at which row fits into the sorted rows.
Insertions(row, sorted) ==
    {SubSeq(sorted, 1, k) \o <<row>> \o SubSeq(sorted, k + 1, Len(sorted)) :
        k \in {n \in 0..Len(sorted) :
                 /\ \A a \in 1..n : ~RowLess(row, sorted[a])
                 /\ \A b \in (n + 1)..Len(sorted) : ~RowLess(sorted[b], row)}}

RECURSIVE SortedRows(_)
\* The orders sort.Slice may leave the rows in: it is not stable.
SortedRows(rows) ==
    IF rows = <<>> THEN {<<>>}
    ELSE UNION {Insertions(Head(rows), sorted) : sorted \in SortedRows(Tail(rows))}

RowsForAnyID(ms, row) == TRUE

\* appendRow adds a row unless len(model.ID) < 19.
RowAppended(ms, row) == ~(IDLength(ms[row.model].ID) < 19)

RECURSIVE TableRows(_, _)
\* for _, row := range rows { appendRow(table, row.tag, row.model) }
TableRows(ms, rows) ==
    IF rows = <<>> THEN <<>>
    ELSE (IF RowAppended(ms, Head(rows))
          THEN <<[Head(rows) EXCEPT !.displayName = stripDefaultsFromModelName(Head(rows).tag, <<>>)]>>
          ELSE <<>>) \o TableRows(ms, Tail(rows))

NoLookup == [res |-> "none", id |-> <<>>]

ListUnused == listState = [models |-> <<>>, rows |-> <<>>, printed |-> FALSE, lookup |-> NoLookup]

InitList ==
    \E ms \in UNION {[1..n -> ListedModels] : n \in 1..MaxListed} :
        listState = [models |-> ms, rows |-> <<>>, printed |-> FALSE, lookup |-> NoLookup]

\* prettyPrintModels(models)
prettyPrintModels ==
    /\ ~listState.printed /\ listState.lookup = NoLookup
    /\ \E sorted \in SortedRows(DisplayRows(listState.models, 1)) :
           listState' = [listState EXCEPT !.rows = TableRows(listState.models, sorted),
                                          !.printed = TRUE]
    /\ UNCHANGED <<earlyVars, regState, pipe, backend>>

\* The references the CLI expands with fullModelID.
LookedUp == { <<"aaaaaaaaaaaa">>, <<"a">>, <<"nothing">>, ShortModelID }

\* c.fullModelID(id) on the listing the server returned.
CallFullModelID(id) ==
    /\ ~listState.printed /\ listState.lookup = NoLookup
    /\ listState' =
           [listState EXCEPT
               !.lookup = fullModelID([i \in 1..Len(listState.models) |->
                                          [id |-> listState.models[i].ID,
                                           tags |-> listState.models[i].Tags]], id)]
    /\ UNCHANGED <<earlyVars, regState, pipe, backend>>

\* ========================================================================
\* desktop.DisplayProgress on a terminal: the main loop, the pipe and the
\* goroutine that runs jsonmessage.DisplayJSONMessagesStream
\* ========================================================================

\* Most lines of a body.
MaxBody == 3

\* The lines of a body: a progress event of a layer, a progress event
\* without layer ID (nothing is written for it), a success event, an error
\* event, a line that is skipped.
BodyLines == {"progress", "noLayer", "success", "error", "skipped"}

\* main: where DisplayProgress is: "scan" in the loop, "write" inside
\* pw.Write, "wait" on <-errCh, "returned". display: the goroutine:
\* "reading" from pr, "failed" (DisplayJSONMessagesStream returned an error),
\* "ended" (it returned nil). pwClosed: pw.Close() was called. errCh: what
\* the goroutine left in the channel.
PipeStart(body) ==
    [body |-> body, next |-> 1, main |-> "scan", display |-> "reading",
     pwClosed |-> FALSE, errCh |-> "open", err |-> "nil", written |-> 0]

PipeUnused == pipe = PipeStart(<<>>)

InitPipe == \E body \in UNION {[1..n -> BodyLines] : n \in 0..MaxBody} : pipe = PipeStart(body)

\* One turn of the loop over scanner.Scan(), or the end of the body.
MainScans ==
    /\ pipe.main = "scan"
    /\ pipe' =
         IF pipe.next > Len(pipe.body)
         THEN [pipe EXCEPT !.pwClosed = TRUE, !.main = "wait"]
         ELSE CASE pipe.body[pipe.next] = "progress" -> [pipe EXCEPT !.main = "write"]
                [] pipe.body[pipe.next] = "error" ->
                       [pipe EXCEPT !.pwClosed = TRUE, !.main = "returned", !.err = "event"]
                [] OTHER -> [pipe EXCEPT !.next = pipe.next + 1]
    /\ UNCHANGED <<earlyVars, regState, listState, backend>>

\* A write to pw returns once a read of pr has taken its data.
WriteCompletes(p) == p.display = "reading"

\* The goroutine reads the message written to the pipe and displays it;
\* fails: displaying it fails and DisplayJSONMessagesStream returns the
\* error, which the goroutine puts into errCh before closing it.
DisplayReads(fails) ==
    /\ pipe.main = "write"
    /\ WriteCompletes(pipe)
    /\ pipe' = [pipe EXCEPT !.main = "scan", !.next = pipe.next + 1,
                            !.written = pipe.written + 1,
                            !.display = IF fails THEN "failed" ELSE "reading",
                            !.errCh = IF fails THEN "error" ELSE "open"]
    /\ UNCHANGED <<earlyVars, regState, listState, backend>>

\* The goroutine reads the end of the pipe after pw.Close().
DisplayEnds ==
    /\ pipe.display = "reading"
    /\ pipe.pwClosed
    /\ pipe.main # "write"
    /\ pipe' = [pipe EXCEPT !.display = "ended", !.errCh = "closed"]
    /\ UNCHANGED <<earlyVars, regState, listState, backend>>

\* err := <-errCh
MainReceives ==
    /\ pipe.main = "wait"
    /\ pipe.errCh # "open"
    /\ pipe' = [pipe EXCEPT !.main = "returned",
                            !.err = IF pipe.errCh = "error" THEN "display" ELSE "nil"]
    /\ UNCHANGED <<earlyVars, regState, listState, backend>>

NextPipe ==
    \/ MainScans
    \/ \E fails \in BOOLEAN : DisplayReads(fails)
    \/ DisplayEnds
    \/ MainReceives

\* ========================================================================
\* RunBackend: the backend process, the goroutine that waits for it, and
\* the caller's select
\* ========================================================================

\* main: "create" before sandbox.Create, "select" in the outer select,
\* "check" in the inner one, "defer" in the deferred <-backendErrors,
\* "sandbox" in the deferred backendSandbox.Close(), "returned". waiter: the
\* goroutine: "wait" in Command().Wait(), "copy" before the output tail is
\* read, "send" before backendErrors <- backendErr, "close" before
\* close(backendErrors), "remove" before the socket file is removed,
\* "done". buffered: backendErrors holds the error; closed: it is closed.
BackendStart ==
    [main |-> "create", ctxDone |-> FALSE, signalled |-> FALSE, proc |-> "none",
     waiter |-> "none", buffered |-> FALSE, closed |-> FALSE, res |-> "none",
     ctxAtReturn |-> FALSE]

BackendUnused == backend = BackendStart

\* sandbox.Create starts the process or fails.
SandboxCreate(ok) ==
    /\ backend.main = "create"
    /\ backend' = IF ok
                  THEN [backend EXCEPT !.main = "select", !.proc = "running", !.waiter = "wait"]
                  ELSE [backend EXCEPT !.main = "returned", !.res = "unable to start",
                                       !.ctxAtReturn = backend.ctxDone]
    /\ UNCHANGED <<earlyVars, regState, listState, pipe>>

\* The caller's context is cancelled; command.Cancel signals the process.
CancelContext ==
    /\ ~backend.ctxDone
    /\ backend.main # "returned"
    /\ backend' = [backend EXCEPT !.ctxDone = TRUE, !.signalled = backend.proc = "running"]
    /\ UNCHANGED <<earlyVars, regState, listState, pipe>>

\* The process exits, by itself or after the signal.
ProcessExits(status) ==
    /\ backend.proc = "running"
    /\ backend' = [backend EXCEPT !.proc = status]
    /\ UNCHANGED <<earlyVars, regState, listState, pipe>>

\* The goroutine: Command().Wait() returns, the log writer is closed and the
\* output tail read, the error is sent, the channel is closed, the socket
\* file is removed.
WaiterSteps ==
    /\ \/ /\ backend.waiter = "wait"
          /\ backend.proc \in {"exit 0", "exit 1"}
          /\ backend' = [backend EXCEPT !.waiter = "copy"]
       \/ /\ backend.waiter = "copy"
          /\ backend' = [backend EXCEPT !.waiter = "send"]
       \/ /\ backend.waiter = "send"
          /\ backend' = [backend EXCEPT !.waiter = "close", !.buffered = TRUE]
       \/ /\ backend.waiter = "close"
          /\ backend' = [backend EXCEPT !.waiter = "remove", !.closed = TRUE]
       \/ /\ backend.waiter = "remove"
          /\ backend' = [backend EXCEPT !.waiter = "done"]
    /\ UNCHANGED <<earlyVars, regState, listState, pipe>>

ReceivesWithoutWaiting(b) == TRUE

\* A receive from backendErrors can proceed.
CanReceive(b) == b.buffered \/ b.closed

\* select: case <-ctx.Done(): return nil
SelectContext ==
    /\ backend.main = "select"
    /\ backend.ctxDone
    /\ backend' = [backend EXCEPT !.main = "defer", !.res = "nil", !.ctxAtReturn = TRUE]
    /\ UNCHANGED <<earlyVars, regState, listState, pipe>>

\* select: case backendErr := <-backendErrors
SelectBackendError ==
    /\ backend.main = "select"
    /\ CanReceive(backend)
    /\ backend' = [backend EXCEPT !.main = "check", !.buffered = FALSE]
    /\ UNCHANGED <<earlyVars, regState, listState, pipe>>

\* The inner select: nil when the context is done, the error otherwise.
CheckContext ==
    /\ backend.main = "check"
    /\ backend' = [backend EXCEPT !.main = "defer",
                                  !.res = IF backend.ctxDone THEN "nil"
                                          ELSE "terminated unexpectedly",
                                  !.ctxAtReturn = backend.ctxDone]
    /\ UNCHANGED <<earlyVars, regState, listState, pipe>>

\* defer func() { <-backendErrors }()
DeferredReceive ==
    /\ backend.main = "defer"
    /\ CanReceive(backend)
    /\ backend' = [backend EXCEPT !.main = "sandbox", !.buffered = FALSE]
    /\ UNCHANGED <<earlyVars, regState, listState, pipe>>

\* defer backendSandbox.Close(), and the return
SandboxClose ==
    /\ backend.main = "sandbox"
    /\ backend' = [backend EXCEPT !.main = "returned"]
    /\ UNCHANGED <<earlyVars, regState, listState, pipe>>

NextBackend ==
    \/ \E ok \in BOOLEAN : SandboxCreate(ok)
    \/ CancelContext
    \/ \E status \in {"exit 0", "exit 1"} : ProcessExits(status)
    \/ WaiterSteps
    \/ SelectContext
    \/ SelectBackendError
    \/ CheckContext
    \/ DeferredReceive
    \/ SandboxClose

LateUnused == RegistryUnused /\ ListUnused /\ PipeUnused /\ BackendUnused

\* No pull of handleCreateModel has ended.
CreateLogUnused ==
    /\ herr = [r \in Reqs |-> "none"]
    /\ hlog = [r \in Reqs |-> "none"]

\* No call of writeLayer has been made.
InitLayerCalls ==
    /\ lattempts = [w \in Writers |-> 0]
    /\ lresult = [w \in Writers |-> "none"]

TailUnused == NameUnused /\ CreateLogUnused /\ InitLayerCalls /\ InitIndex /\ LateUnused

\* The components beside the pull gate and the blob files are at rest.
RestUnused ==
    InitCleanup /\ HashUnused /\ CreateUnused /\ InitProgress /\ DisplayUnused /\ RefUnused
        /\ TailUnused

\* ========================================================================
\* Specifications
\* ========================================================================

\* The steps of WriteBlob after its entry, by writer w.
WriteBlobStep(w) ==
    \/ StatIncomplete(w)
    \/ VerifyIncomplete(w)
    \/ RenameComplete(w)
    \/ OpenAppend(w)
    \/ CreateFile(w)
    \/ CopyByte(w)
    \/ CopyEOF(w)
    \/ VerifyCompleted(w)
    \/ RemoveCorrupt(w)
    \/ FinalRename(w)
    \/ Cleanup(w)
    \/ WriteBlobDone(w)

\* The store slot is not in use while the pull gate is explored.
StoreUnused ==
    /\ target = <<>>
    /\ diffID = Digest("sha256", <<>>)
    /\ InitFiles
    /\ InitWriters

Init == InitPull /\ StoreUnused /\ RestUnused

Next ==
    \E r \in Reqs :
        \/ PullModelCall(r)
        \/ CtxCancel(r)
        \/ AcquireToken(r)
        \/ CancelWhileWaiting(r)
        \/ BeginPull(r)
        \/ NoFlusher(r)
        \/ PullReturns(r)
        \/ NextRequest(r)

\* The pull gate: any number of requests arrive, are cancelled, pull, fail.
Spec == Init /\ [][Next]_vars

\* Scheduling of the Go runtime: a goroutine that can run does run (weak
\* fairness of every step of PullModel), and a goroutine blocked in the select
\* is served when tokens keep coming back (receivers queue on the channel),
\* which is strong fairness of the receive.  Requests arriving and contexts
\* being cancelled are up to the clients and carry no fairness.
\* Each of these steps moves the request on (rpc changes), so the subscript
\* pullVars says the same as vars.
Fairness ==
    \A r \in Reqs :
        /\ SF_pullVars(AcquireToken(r))
        /\ WF_pullVars(CancelWhileWaiting(r))
        /\ WF_pullVars(BeginPull(r) \/ NoFlusher(r))
        /\ WF_pullVars(PullReturns(r))

FairSpec == Init /\ [][Next]_vars /\ Fairness

InitStoreSpec == InitPull /\ InitStore /\ RestUnused

\* A single caller uses the store: WriteBlob calls follow one another, and
\* between them blobs are removed and config files written.
NextStore ==
    \/ \E w \in SeqWriters :
        \/ \E data \in SeqsUpTo(MaxLen), fail \in BOOLEAN : WriteBlobCall(w, data, fail)
        \/ WriteBlobStep(w)
        \/ CopyError(w)
    \/ Crash
    \/ RemoveBlob
    \/ writeConfigFile

StoreSpec == InitStoreSpec /\ [][NextStore]_vars

\* Several goroutines pull the same layer: each runs writeLayer and WriteBlob
\* for the same digest, with a reader that supplies the layer's bytes.
NextConc ==
    \E w \in Writers :
        \/ writeLayer(w, FALSE)
        \/ WriteBlobEnter(w)
        \/ WriteBlobStep(w)

ConcStoreSpec == InitStoreSpec /\ [][NextConc]_vars

\* ========================================================================
\* Properties of the pull gate
\* ========================================================================

\* Requests that hold a token: past the select, not yet returned.
PastAcquisition == {r \in Reqs : rpc[r] \in HoldingPcs}

InDistributionPull == {r \in Reqs : rpc[r] = "pulling"}

\* C1: under every interleaving, at most maximumConcurrentModelPulls (2) calls
\* of Manager.PullModel are past token acquisition at the same time, hence at
\* most 2 run distributionClient.PullModel at the same time.
C1_AtMostTwoPulls ==
    /\ Cardinality(PastAcquisition) <= maximumConcurrentModelPulls
    /\ Cardinality(InDistributionPull) <= maximumConcurrentModelPulls

\* Two pulls are transferring while a third request is blocked in the select.
C1_Witness ==
    /\ Cardinality(InDistributionPull) = maximumConcurrentModelPulls
    /\ \E r \in Reqs : rpc[r] = "select"

\* C2: in every reachable state the tokens in the pool plus the PullModel
\* calls holding a token are 2: each call gives back exactly the token it
\* took on every return path, and a call cancelled in the select takes none.
C2_TokensConserved ==
    pullTokens + Cardinality(PastAcquisition) = maximumConcurrentModelPulls

\* One call has left through the 'streaming not supported' return, another
\* was cancelled while waiting, a third one holds a token.
C2_Witness ==
    \E a, b, c \in Reqs :
        /\ rpc[a] = "done" /\ rres[a] = "nostream"
        /\ rpc[b] = "done" /\ rres[b] = "Canceled"
        /\ rpc[c] = "pulling"

\* A request blocked in the select has written no header and started no
\* registry I/O.
WaitsQuietly == \A r \in Reqs : rpc[r] = "select" => ~headers[r] /\ ~regIO[r]

\* A request leaves the select either with a token that was in the pool, or
\* by returning context.Canceled with its own context cancelled, still
\* without header or registry I/O.
LeavesSelect(r) ==
    (rpc[r] = "select" /\ rpc'[r] # "select") =>
        \/ rpc'[r] = "held" /\ pullTokens > 0 /\ pullTokens' = pullTokens - 1
        \/ /\ rpc'[r] = "done" /\ rres'[r] = "Canceled" /\ ctxDone[r]
           /\ ~headers'[r] /\ ~regIO'[r] /\ pullTokens' = pullTokens

\* C3: a PullModel call that finds no token performs no registry I/O and
\* writes no header while it waits; it begins only with a token another pull
\* has returned, or returns context.Canceled when its own context is
\* cancelled; and once a token is back while the waiter is not cancelled, the
\* waiter eventually begins (or is cancelled meanwhile), under fair scheduling.
C3_WaiterBlocksThenBegins ==
    /\ []WaitsQuietly
    /\ [][\A r \in Reqs : LeavesSelect(r)]_vars
    /\ \A r \in Reqs :
        (rpc[r] = "select" /\ pullTokens > 0 /\ ~ctxDone[r])
            ~> (rpc[r] = "held" \/ ctxDone[r])

\* A request waits in the select, not cancelled, while both tokens are taken.
C3_Witness ==
    \E r \in Reqs :
        /\ rpc[r] = "select" /\ ~ctxDone[r]
        /\ pullTokens = 0
        /\ Cardinality(InDistributionPull) = maximumConcurrentModelPulls

\* ========================================================================
\* Properties of the blob store
\* ========================================================================

\* The bytes b hash to the digest h.
HashesTo(b, h) == Digest(h.Algorithm, b) = h

Returned(w) == wpc[w] = "returned"

\* C4: when WriteBlob(h, reader) has returned nil the final blob exists
\* (hasBlob(h) is true), whatever .incomplete file existed before the call:
\* there is no state in which it returned nil and the blob is missing.
C4_NilImpliesHasBlob ==
    \A w \in Writers : (Returned(w) /\ wret[w] = "nil") => blobIno # NoIno

\* A call that found a partial .incomplete file, was given the remaining bytes
\* and returned nil.
C4_Witness ==
    \E w \in Writers :
        /\ Returned(w) /\ wret[w] = "nil" /\ ~entryBlob[w]
        /\ entryInc[w] # None /\ entryInc[w] # Some(target)
        /\ isResume[w] /\ nread[w] > 0
        /\ HashesTo(entryInc[w][1] \o rgiven[w], diffID)

\* C5 as stated: after any sequence of WriteBlob calls with arbitrary reader
\* contents, the finalized blob file, if it exists, has content that hashes
\* to its name.
C5_FinalBlobHashesToName ==
    blobIno # NoIno => HashesTo(inodes[blobIno], diffID)

\* C5 amended: after any sequence of WriteBlob calls (fresh, resumed, failed)
\* in which every fresh write was fed by a verifying reader (one that supplies
\* exactly the bytes of the digest or ends with an error), the finalized blob
\* file, if it exists, has content that hashes to its name.
C5_FinalBlobVerifiedOrTrusted ==
    ~untrusted => (blobIno # NoIno => HashesTo(inodes[blobIno], diffID))

\* A resumed write whose reader supplied bytes has been verified and
\* finalized, all fresh writes so far having been fed by verifying readers.
C5_Witness ==
    \E w \in Writers :
        /\ ~untrusted /\ Returned(w) /\ wret[w] = "nil"
        /\ isResume[w] /\ nread[w] > 0
        /\ blobIno # NoIno /\ blobOrigin = "rename"

\* WriteBlob was called while a K-byte .incomplete file existed (and no final
\* blob), with a reader that supplies the bytes from offset K on, and has
\* returned.
ResumedWithTail(w) ==
    /\ Returned(w) /\ ~entryBlob[w] /\ entryInc[w] # None
    /\ ~rfail[w]
    /\ Len(entryInc[w][1]) <= Len(target)
    /\ rgiven[w] = LayerBytesFrom(Len(entryInc[w][1]))

\* C6: a WriteBlob(h, r) called on a K-byte .incomplete file with r supplying
\* the bytes from offset K on finalizes the blob (returns nil, final file
\* present) iff the existing bytes followed by r's bytes hash to h; otherwise
\* it returns a hash mismatch, creates no final blob and removes .incomplete.
C6_ResumeFinalizesIffHashMatches ==
    \A w \in Writers : ResumedWithTail(w) =>
        IF HashesTo(entryInc[w][1] \o rgiven[w], diffID)
        THEN wret[w] = "nil" /\ blobIno # NoIno
        ELSE wret[w] = "mismatch" /\ blobIno = NoIno /\ incIno = NoIno

\* C7: if on entry the .incomplete file already hashes to h, WriteBlob renames
\* it to the final path and returns nil, reads no byte from r and appends
\* nothing to the file.
C7_CompleteFileIsOnlyRenamed ==
    \A w \in Writers :
        (Returned(w) /\ ~entryBlob[w] /\ entryInc[w] # None
            /\ HashesTo(entryInc[w][1], diffID)) =>
        /\ wret[w] = "nil" /\ nread[w] = 0
        /\ blobIno # NoIno /\ inodes[blobIno] = entryInc[w][1]
        /\ incIno = NoIno

\* The bytes the .incomplete file held when the call was entered.
EntryBytes(w) == IF entryInc[w] = None THEN <<>> ELSE entryInc[w][1]

\* C8: when the copy fails with the reader's error, the .incomplete file
\* stays on disk with the bytes written so far, for a fresh download and for
\* a resumed one alike, so that GetIncompleteSize returns that byte count.
C8_CopyErrorKeepsPartial ==
    \A w \in Writers : (Returned(w) /\ wret[w] = "copyerr") =>
        /\ incIno # NoIno
        /\ inodes[incIno] = EntryBytes(w) \o SubSeq(rgiven[w], 1, nread[w])
        /\ GetIncompleteSize = Len(EntryBytes(w)) + nread[w]

IsPrefix(a, b) == Len(a) <= Len(b) /\ a = SubSeq(b, 1, Len(a))

\* C9: two concurrent WriteBlob calls for the same hash, both fed the correct
\* bytes: the final blob, once present, holds content hashing to h; the
\* .incomplete file never holds interleaved or truncated-over bytes (it is
\* always a prefix of the blob's bytes); exactly one rename produces the
\* final file; and when both calls have returned the final blob exists.
C9_ConcurrentWritesAreSafe ==
    /\ blobIno # NoIno => HashesTo(inodes[blobIno], diffID)
    /\ incIno # NoIno => IsPrefix(inodes[incIno], target)
    /\ renames <= 1
    /\ (\A w \in Writers : Returned(w)) => blobIno # NoIno

NextCleanup ==
    \/ Tick
    \/ \E p \in CleanupPaths : TouchFile(p)
    \/ \E maxAge \in 0..MaxAge, unreadable \in OnePathOrNone, undeletable \in OnePathOrNone :
          CleanupStaleIncompleteFiles(maxAge, unreadable, undeletable)
    \/ CleanupReturned

CleanupSpec == Init /\ [][NextCleanup]_vars

\* A *.incomplete file (not a directory) left behind by the last cleanup.
RemainingIncomplete ==
    {p \in lastCleanup.after : ~IsDir(p) /\ p[Len(p)] = ".incomplete"}

ModifiedWithin(p) == lastCleanup.at - lastCleanup.mt[p] <= lastCleanup.maxAge

\* The cleanup removed nothing but *.incomplete files.
OnlyIncompleteRemoved ==
    \A p \in lastCleanup.before \ lastCleanup.after :
        ~IsDir(p) /\ p[Len(p)] = ".incomplete"

\* C11 (as stated): after CleanupStaleIncompleteFiles(d) returns, every
\* *.incomplete file still present was modified within the last d, and no
\* finalized blob or other file was removed.
C11_RemainingAreRecent ==
    cleaned => /\ \A p \in RemainingIncomplete : ModifiedWithin(p)
               /\ OnlyIncompleteRemoved

\* C11 (amended): after CleanupStaleIncompleteFiles(d) returns nil, every
\* *.incomplete file still present that the walk could read was modified
\* within the last d; whatever it returns, no finalized blob or other file
\* was removed.
C11_RemainingAreRecentOnSuccess ==
    cleaned =>
        /\ lastCleanup.res = "nil" =>
              \A p \in RemainingIncomplete \ lastCleanup.unreadable : ModifiedWithin(p)
        /\ OnlyIncompleteRemoved

\* A cleanup removed a stale download and kept a recent one and an old blob.
C11_Witness ==
    /\ cleaned
    /\ lastCleanup.res = "nil"
    /\ lastCleanup.unreadable = {}
    /\ <<"sha256", "aa", ".incomplete">> \in lastCleanup.before \ lastCleanup.after
    /\ <<"sha256", "bb", ".incomplete">> \in lastCleanup.after
    /\ <<"sha256", "aa">> \in lastCleanup.after
    /\ lastCleanup.at - lastCleanup.mt[<<"sha256", "aa">>] > lastCleanup.maxAge

\* ========================================================================
\* Properties of validateHash and blobPath
\* ========================================================================

InitHashSpec ==
    InitPull /\ StoreUnused /\ InitCleanup /\ InitHash /\ CreateUnused /\ InitProgress /\ DisplayUnused /\ RefUnused
        /\ TailUnused

HashSpec == InitHashSpec /\ [][StoreOpOnHash]_vars

\* '0'..'9' and 'a'..'f'
IsLowerHexChar(c) == (c >= 48 /\ c <= 57) \/ (c >= 97 /\ c <= 102)

\* The hashes the specification allows: sha256 with 64 or sha512 with 128
\* lowercase hexadecimal characters.
WellFormedHash(h) ==
    /\ h.Algorithm \in {"sha256", "sha512"}
    /\ StrLen(h.Hex) = (IF h.Algorithm = "sha256" THEN 64 ELSE 128)
    /\ \A c \in CharsOf(h.Hex) : IsLowerHexChar(c)

UnderStoreRoot(path) == Len(path) > 1 /\ path[1] = "root" /\ \A i \in 2..Len(path) : path[i] # ".."

\* C12: a store operation accepts a hash if and only if it is sha256 or
\* sha512 with exactly 64 respectively 128 lowercase hexadecimal characters;
\* for any other hash it returns an error and touches no file, and every
\* accepted path lies under the store root.
C12_AcceptsExactlyLowercaseHex ==
    hashDone =>
        /\ (hashRes.err = "nil") <=> WellFormedHash(hashArg)
        /\ hashRes.err # "nil" => ~hashTouched
        /\ hashRes.err = "nil" => UnderStoreRoot(hashRes.path)

\* Upper-case hexadecimal digits are accepted.
C12_UppercaseAccepted ==
    /\ hashDone
    /\ hashRes.err = "nil"
    /\ ~WellFormedHash(hashArg)

\* ========================================================================
\* Properties of handleCreateModel
\* ========================================================================

\* One client posts /models/create again and again; its context may be
\* cancelled at any time.
NextCreate ==
    \E r \in CreateReqs :
        \/ \E nilClient \in BOOLEAN, badBody \in BOOLEAN, ignore \in BOOLEAN :
              handleCreateModel(r, nilClient, badBody, ignore)
        \/ \E proceed \in BOOLEAN, err \in BOOLEAN : HaveSufficientMemoryForModel(r, proceed, err)
        \/ CreateCallsPull(r)
        \/ CtxCancel(r)
        \/ AcquireToken(r)
        \/ CancelWhileWaiting(r)
        \/ BeginPull(r)
        \/ NoFlusher(r)
        \/ \E ev \in ProgressEvents : ProgressWrite(r, ev)
        \/ CreatePullReturns(r)
        \/ \E class \in DOMAIN PullErrorStatus : CreateMapError(r, class)
        \/ CreateEndsPull(r)
        \/ CreateReturns(r)

InitCreateSpec ==
    InitPull /\ StoreUnused /\ InitCleanup /\ HashUnused /\ InitCreate /\ InitProgress /\ DisplayUnused /\ RefUnused
        /\ TailUnused

CreateSpec == InitCreateSpec /\ [][NextCreate]_vars

\* The memory check applies to request r and its estimate has come back.
Estimated(r) == memCheckEnabled /\ ~ignoreCheck[r] /\ est[r].called

\* C13: with the memory check enabled and not ignored, an estimate of
\* proceed=false without error is answered with HTTP 507 and PullModel is
\* never called (no token is taken, no streaming header is written); an
\* estimator error lets the pull proceed whatever proceed says.
C13_MemoryCheckGatesPull ==
    \A r \in CreateReqs :
        /\ (Estimated(r) /\ ~est[r].proceed /\ ~est[r].err) =>
              /\ hpc[r] = "rejected"
              /\ hstatus[r] = 507
              /\ rpc[r] = "idle"
              /\ ~headers[r]
              /\ ~regIO[r]
              /\ pullTokens = maximumConcurrentModelPulls
        /\ (Estimated(r) /\ est[r].err) =>
              /\ hstatus[r] # 507
              /\ hpc[r] \in {"pull", "replied"}
        /\ est[r].called => (memCheckEnabled /\ ~ignoreCheck[r])

\* Both cases have happened: a rejection, and a pull running after the
\* estimator failed while saying proceed=false.
C13_Witness ==
    \E r \in CreateReqs :
        /\ Estimated(r)
        /\ est[r].err
        /\ ~est[r].proceed
        /\ rpc[r] = "pulling"

C13_WitnessRejected ==
    \E r \in CreateReqs :
        Estimated(r) /\ ~est[r].proceed /\ ~est[r].err /\ hstatus[r] = 507

\* Positions of the terminal events in a response body.
TerminalAt(body) == {i \in 1..Len(body) : body[i] \in TerminalEvents}

\* The response carries the progress stream.
Streamed(body) == \E i \in 1..Len(body) : body[i] \in ProgressEvents

\* C14: on the response body of POST /models/create exactly one terminal
\* event (success or error) is written and nothing is written after it; in
\* particular the handler's own error output does not follow the terminal
\* error event of a pull that failed after streaming progress.
C14_TerminalEventIsLast ==
    \A r \in CreateReqs :
        /\ \A i \in TerminalAt(hbody[r]) : i = Len(hbody[r])
        /\ (hpc[r] = "replied" /\ Streamed(hbody[r])) => Cardinality(TerminalAt(hbody[r])) = 1

\* The handler's error text follows the terminal error event.
C14_TextAfterTerminal ==
    \E r \in CreateReqs :
        /\ Len(hbody[r]) > 1
        /\ hbody[r][Len(hbody[r])] = "text"
        /\ hbody[r][Len(hbody[r]) - 1] = "error"

\* ========================================================================
\* Properties of the progress stream
\* ========================================================================

\* The layers of one pull are written concurrently; the client displays the
\* events as they arrive.
NextProgress ==
    \/ \E l \in Layers, k \in 0..(LayerSize - 1) : writeLayerReader(l, k)
    \/ \E l \in Layers, n \in 1..LayerSize, sent \in BOOLEAN : ProgressRead(l, n, sent)
    \/ DisplayProgressLine

ProgressSpec == Init /\ [][NextProgress]_vars

\* The values sent for each layer never decrease along the stream.
MonotonicPerLayer ==
    \A i \in 1..Len(pstream), j \in 1..Len(pstream) :
        (i < j /\ pstream[i].id = pstream[j].id) => pstream[i].current <= pstream[j].current

\* A resumed layer reports more than what its .incomplete file held.
ResumedStartsAtSize ==
    \A i \in 1..Len(pstream) : pstream[i].current > lstart[pstream[i].id]

\* C15: within one pull the progress values reported for a single layer
\* never decrease, a resumed layer's values start from the size of its
\* .incomplete file and not from 0, and the values the client keeps per layer
\* never decrease either; events of different layers come in any order.
C15_LayerProgressMonotonic ==
    /\ [](MonotonicPerLayer /\ ResumedStartsAtSize)
    /\ [][\A l \in Layers : layerProgress'[l] >= layerProgress[l]]_vars

\* A resumed layer's event lies between two events of another layer, and
\* the client has displayed all three.
C15_Witness ==
    /\ Len(pstream) = 3
    /\ pnext = 3
    /\ pstream[1].id = pstream[3].id
    /\ pstream[2].id # pstream[1].id
    /\ lstart[pstream[2].id] > 0

\* ========================================================================
\* Properties of DisplayProgress
\* ========================================================================

InitDisplaySpec ==
    InitPull /\ StoreUnused /\ InitCleanup /\ HashUnused /\ CreateUnused /\ InitProgress /\ InitDisplay /\ RefUnused
        /\ TailUnused

NextDisplay ==
    \/ \E k \in 0..(MaxLines + MaxInserted), line \in JunkLines : InsertLine(k, line)
    \/ RunDisplayProgress

DisplaySpec == InitDisplaySpec /\ [][NextDisplay]_vars

\* C16: inserting empty or unparseable lines anywhere into a progress
\* stream does not change what DisplayProgress / displayProgressSimple
\* returns (final message, progress-shown flag, error).
C16_InsertedLinesChangeNothing ==
    dDone => dRes = dBaseRes

\* An inserted line made a successful stream fail.
C16_LongLineBreaksDisplay ==
    /\ dDone
    /\ dBaseRes.err = "nil"
    /\ dBaseRes.msg = "pulled"
    /\ dRes.err = "token too long"

\* ========================================================================
\* Properties of the reference resolvers
\* ========================================================================

InitRefSpec ==
    InitPull /\ StoreUnused /\ InitCleanup /\ HashUnused /\ CreateUnused /\ InitProgress
        /\ DisplayUnused /\ InitRef /\ TailUnused

\* Clients inspect, pull, tag and push models by reference.
NextRef ==
    \/ \E ref \in UserRefs, remote \in BOOLEAN : ClientInspect(ref, remote)
    \/ \E ref \in UserRefs, remote \in BOOLEAN : DirectGet(ref, remote)
    \/ \E registryNil \in BOOLEAN : handleGetModel(registryNil)
    \/ \E r \in {Found(ID1), NotFound, OtherError} : getRemoteModel(r)
    \/ \E fails \in BOOLEAN : LocalAsGiven(fails)
    \/ \E fails \in BOOLEAN : LocalNormalized(fails)
    \/ \E fails \in BOOLEAN : LocalPartialName(fails)
    \/ \E from \in UserRefs \cup {<<>>} : handleCreateModelFrom(from)
    \/ \E model \in UserRefs, action \in {"tag", "push"}, nilClient \in BOOLEAN :
          handleModelAction(model, action, nilClient)
    \/ RequestOver

RefSpec == InitRefSpec /\ [][NextRef]_vars

\* ------------------------------------------------------------------------
\* C17: a local GET /models/{ref} consults its tiers in the order as given,
\* normalized, partial name; a tier is consulted only when every tier before
\* it returned model-not-found, so the lookup stops at the first hit and at
\* the first error that is not not-found; the answer is the last consulted
\* tier's result.
\* ------------------------------------------------------------------------
TierArgument(t) == IF t = 2 THEN NormalizeModelName(gref) ELSE gref

C17_TiersInOrderStopAtFirstHit ==
    /\ \A i \in 1..Len(gtrace) :
          /\ gtrace[i].ref = TierArgument(gtrace[i].tier)
          /\ i = 1 => gtrace[i].tier = 1
          /\ i > 1 => /\ gtrace[i].tier > gtrace[i - 1].tier
                      /\ \A j \in 1..(i - 1) : gtrace[j].res = "notfound"
    /\ (gpc = "done" /\ gtrace # <<>>) =>
          /\ gres.status = StatusOf(gtrace[Len(gtrace)].res)
          /\ gres.id = gtrace[Len(gtrace)].id
          /\ gtrace[Len(gtrace)].res = "notfound" => gtrace[Len(gtrace)].tier = 3

\* The first tier failed with another error and the handler answered 500
\* at once.
C17_Witness ==
    /\ gpc = "done"
    /\ Len(gtrace) = 1
    /\ gtrace[1].res = "error"
    /\ gres.status = 500

\* The second tier found the model after the first did not, and the third
\* was not consulted.
C17_WitnessSecondTierHit ==
    /\ gpc = "done"
    /\ Len(gtrace) = 2
    /\ gtrace[1].res = "notfound"
    /\ gtrace[2].res = "found"
    /\ gres.status = 200

\* ------------------------------------------------------------------------
\* C18: with one model stored, tagged ai/m:latest and with ID I, a local
\* inspect that meets no store failure returns the model I for each of the
\* forms m, m:latest, ai/m, ai/m:latest, docker.io/ai/m,
\* docker.io/ai/m:latest, I, I[7:19] and the hex of I, and answers 404 for a
\* name that matches nothing.
\* ------------------------------------------------------------------------
SingleModelStore ==
    /\ Len(models) = 1
    /\ models[1].tags = << <<defaultOrg, "/", "m", ":", defaultTag>> >>

FormsOf(id) ==
    { <<"m">>, <<"m", ":", "latest">>, <<"ai", "/", "m">>, <<"ai", "/", "m", ":", "latest">>,
      <<"docker.io", "/", "ai", "/", "m">>, <<"docker.io", "/", "ai", "/", "m", ":", "latest">>,
      id, ShortID(id), TrimSha256(id) }

UnmatchedNames ==
    { <<"nothing">>, <<"m", ":", "v1">>, <<"myorg", "/", "m">>, <<"hf.co", "/", "Org", "/", "M">> }

\* A local GET /models/{ref} has been answered and no lookup failed.
LocalInspectAnswered ==
    /\ gpc = "done"
    /\ ~gremote
    /\ gtrace # <<>>
    /\ \A i \in 1..Len(gtrace) : gtrace[i].res # "error"

C18_EveryFormFindsTheModel ==
    (SingleModelStore /\ LocalInspectAnswered) =>
        /\ uref \in FormsOf(models[1].id) => gres = [status |-> 200, id |-> models[1].id]
        /\ uref \in UnmatchedNames => gres.status = 404

\* m:latest was found by the normalized reference after the reference as
\* given was not.
C18_Witness ==
    /\ SingleModelStore
    /\ LocalInspectAnswered
    /\ uref = <<"m", ":", "latest">>
    /\ Len(gtrace) = 2
    /\ gres = [status |-> 200, id |-> ID1]

\* ------------------------------------------------------------------------
\* C19: findModelByPartialName(ref) returns the first model of the listing
\* that has a tag whose name part equals ref verbatim, also when several
\* models have such a tag, and ErrModelNotFound when none has.
\* ------------------------------------------------------------------------
\* The models of the listing with a tag whose name part is ref.
NameMatches(ref) ==
    {i \in 1..Len(models) : \E j \in 1..Len(models[i].tags) : NamePart(models[i].tags[j]) = ref}

C19_PartialNameReturnsFirstMatch ==
    \A k \in 1..Len(gtrace) :
        (gtrace[k].tier = 3 /\ gtrace[k].res # "error") =>
            IF NameMatches(gtrace[k].ref) = {}
            THEN gtrace[k].res = "notfound"
            ELSE /\ gtrace[k].res = "found"
                 /\ \E i \in NameMatches(gtrace[k].ref) :
                       /\ gtrace[k].id = models[i].id
                       /\ \A h \in 1..(i - 1) : h \notin NameMatches(gtrace[k].ref)

\* Two models have a tag named m, and the lookup returned the first.
C19_Witness ==
    /\ gpc = "done"
    /\ Len(gtrace) = 3
    /\ gtrace[3].tier = 3
    /\ NameMatches(gtrace[3].ref) = {1, 2}
    /\ gtrace[3].res = "found"
    /\ gres = [status |-> 200, id |-> models[1].id]

\* ------------------------------------------------------------------------
\* C20: every reference the handlers hand to a registry-facing operation
\* (the remote lookup, PullModel, PushModel) is canonical: it names an
\* organization or a registry, and a tag or a digest.
\* ------------------------------------------------------------------------
IsCanonical(ref) ==
    /\ Contains(ref, "/")
    /\ Contains(ref, ":") \/ Contains(ref, "@")

C20_OnlyCanonicalReachesRegistry ==
    \A i \in 1..Len(regCalls) : IsCanonical(regCalls[i].ref)

\* The push handler handed the shorthand m to PushModel as typed.
C20_ShorthandPushed ==
    /\ gpc = "done"
    /\ uref = <<"m">>
    /\ regCalls = <<[op |-> "PushModel", ref |-> <<"m">>]>>

\* The remote lookup and the pull of a non-empty reference get canonical
\* references.
C20_LookupAndPullCanonical ==
    \A i \in 1..Len(regCalls) :
        (regCalls[i].op # "PushModel" /\ uref # <<>>) => IsCanonical(regCalls[i].ref)

\* ========================================================================
\* Properties of reference normalization and of display names
\* ========================================================================

InitNameSpec ==
    InitPull /\ StoreUnused /\ InitCleanup /\ HashUnused /\ CreateUnused /\ InitProgress
        /\ DisplayUnused /\ RefUnused /\ InitName /\ CreateLogUnused /\ InitLayerCalls
        /\ InitIndex /\ LateUnused

NextName ==
    \/ NormalizeForPull
    \/ \E ref \in NameInputs \cup {nameOut} : NormalizeForRun(ref)
    \/ StripForDisplay

NameSpec == InitNameSpec /\ [][NextName]_vars

InitIndexSpec ==
    /\ InitPull /\ StoreUnused /\ InitCleanup /\ HashUnused /\ CreateUnused /\ InitProgress
    /\ DisplayUnused /\ RefUnused /\ NameUnused /\ CreateLogUnused /\ InitLayerCalls
    /\ EmptyIndex /\ clientNil \in BOOLEAN /\ LateUnused

NextIndex ==
    \/ \E id \in {ID1, ID2}, tag \in TagRefs : PullBegins(id, tag)
    \/ \E from \in IndexRequestRefs \cup {<<>>}, tag \in TagRefs \cup {<<>>} :
           handlePackageModel(from, tag)
    \/ \E b \in AllBlobs : PullWritesBlob(b)
    \/ PullWritesManifest
    \/ PullWritesIndex
    \/ PullAbandoned
    \/ \E modelRef \in IndexRequestRefs, q \in ForceQueries, fails \in BOOLEAN :
           handleDeleteModel(modelRef, q, fails)
    \/ \E model \in ActionRefs, action \in ActionNames, fails \in BOOLEAN :
          \E repo \in (IF action = "tag" THEN RepoNames ELSE {<<>>}),
             tag \in (IF action = "tag" THEN TagNames ELSE {<<>>}) :
               handleModelActionOnIndex(model, action, repo, tag, fails)
    \/ \E fails \in BOOLEAN : handlePurge(fails)
    \/ \E arg \in RemoveArgs, force \in BOOLEAN : ClientRemove(arg, force)
    \/ \E route \in {"create", "load"} : handleWithoutClient(route)
    \/ \E route \in {"list", "openai list"}, fails \in BOOLEAN : handleGetModels(route, fails)
    \/ \E modelRef \in ActionRefs : handleGetModelLocal(modelRef)
    \/ \E modelRef \in ActionRefs : handleOpenAIGetModel(modelRef)

IndexSpec == InitIndexSpec /\ [][NextIndex]_vars

\* The rest of the program when one of the late components runs alone.
EarlyUnused ==
    /\ InitPull /\ StoreUnused /\ InitCleanup /\ HashUnused /\ CreateUnused /\ InitProgress
    /\ DisplayUnused /\ RefUnused /\ NameUnused /\ CreateLogUnused /\ InitLayerCalls
    /\ InitIndex

InitRegistrySpec == EarlyUnused /\ InitRegistry /\ ListUnused /\ PipeUnused /\ BackendUnused

InitListSpec == EarlyUnused /\ RegistryUnused /\ InitList /\ PipeUnused /\ BackendUnused

NextList ==
    \/ prettyPrintModels
    \/ \E id \in LookedUp : CallFullModelID(id)

ListSpec == InitListSpec /\ [][NextList]_vars

NextRegistry ==
    \/ \E env \in RegistryEnv : Setenv(env)
    \/ GetDefaultRegistryOptions
    \/ resetOnceForTest

RegistrySpec == InitRegistrySpec /\ [][NextRegistry]_vars

InitPipeSpec == EarlyUnused /\ RegistryUnused /\ ListUnused /\ InitPipe /\ BackendUnused

\* The main loop and the goroutine both run whenever they can.
PipeSpec == InitPipeSpec /\ [][NextPipe]_vars /\ WF_pipe(NextPipe)

InitBackendSpec == EarlyUnused /\ RegistryUnused /\ ListUnused /\ PipeUnused /\ backend = BackendStart

BackendSpec == InitBackendSpec /\ [][NextBackend]_vars

\* The first segment of a reference, what precedes its first "/".
FirstSegment(ref) == IF Contains(ref, "/") THEN Before(ref, Index(ref, "/")) ELSE <<>>

\* What follows the first segment and its "/".
AfterFirstSegment(ref) == IF Contains(ref, "/") THEN After(ref, Index(ref, "/")) ELSE ref

\* The first segment names a registry host: it contains a dot.
HostFirst(ref) == \E i \in 1..Len(FirstSegment(ref)) : HasDot(FirstSegment(ref)[i])

\* A reference with a registry host and neither a tag nor a digest after it.
UntaggedHostRef(ref) ==
    /\ HostFirst(ref)
    /\ ~Contains(AfterFirstSegment(ref), ":")
    /\ ~Contains(AfterFirstSegment(ref), "@")

Separators == {"/", ":", "@"}

\* The forms n, n:t, o/n and o/n:t of a reference without a registry host.
IsName(ref) == Len(ref) = 1 /\ ref[1] \notin Separators

IsNameTag(ref) == Len(ref) = 3 /\ ref[2] = ":"

IsOrgName(ref) == Len(ref) = 3 /\ ref[2] = "/" /\ ~HostFirst(ref)

IsOrgNameTag(ref) == Len(ref) = 5 /\ ref[2] = "/" /\ ref[4] = ":" /\ ~HostFirst(ref)

\* ------------------------------------------------------------------------
\* C21: NormalizeModelName maps n to ai/n:latest, n:t to ai/n:t, o/n to
\* o/n:latest and o/n:t to itself; a reference with a registry host in its
\* first segment and no tag or digest after it to itself with :latest
\* appended; and such a reference under hf.co/ to its lowercase form with
\* :latest appended.
\* ------------------------------------------------------------------------
C21_NormalizeMapsEachForm ==
    nameOp = "pulled" =>
        /\ IsName(nameArg) => nameOut = <<"ai", "/", nameArg[1], ":", "latest">>
        /\ IsNameTag(nameArg) => nameOut = <<"ai", "/">> \o nameArg
        /\ IsOrgName(nameArg) => nameOut = nameArg \o <<":", "latest">>
        /\ IsOrgNameTag(nameArg) => nameOut = nameArg
        /\ (UntaggedHostRef(nameArg) /\ FirstSegment(nameArg) # <<"hf.co">>) =>
              nameOut = nameArg \o <<":", "latest">>
        /\ (UntaggedHostRef(nameArg) /\ FirstSegment(nameArg) = <<"hf.co">>) =>
              nameOut = ToLower(nameArg) \o <<":", "latest">>

\* A reference with a registry host written with a port came back without
\* a tag.
C21_PortHostLeftUntagged ==
    /\ nameOp = "pulled"
    /\ UntaggedHostRef(nameArg)
    /\ Contains(FirstSegment(nameArg), ":")
    /\ nameOut = nameArg

\* The same, for references whose registry host has no port.
C21_FormsWithoutPort ==
    (nameOp = "pulled" /\ ~Contains(FirstSegment(nameArg), ":")) => C21_NormalizeMapsEachForm

\* ------------------------------------------------------------------------
\* C22: NormalizeModelName is idempotent, and it maps the members of each of
\* the classes {n, ai/n, ai/n:latest} and {hf.co/Org/M, hf.co/org/m,
\* hf.co/org/m:latest} to one reference, the class's canonical member, so a
\* reference normalized at run time equals the one stored at pull time.
\* ------------------------------------------------------------------------
EquivalenceClasses ==
    { {<<n>>, <<"ai", "/", n>>, <<"ai", "/", n, ":", "latest">>} : n \in {"m", "llama3.2"} }
        \cup { { <<"hf.co", "/", "Org", "/", "M">>, <<"hf.co", "/", "org", "/", "m">>,
                 <<"hf.co", "/", "org", "/", "m", ":", "latest">> } }

C22_NormalizeIdempotentAndConsistent ==
    nameOp = "run" =>
        /\ nameArg2 = nameOut => nameOut2 = nameOut
        /\ \A class \in EquivalenceClasses :
              (nameArg \in class /\ nameArg2 \in class) =>
                  /\ nameOut = nameOut2
                  /\ nameOut \in class

\* hf.co/Org/M was pulled and hf.co/org/m:latest is run: both are the same
\* stored reference.
C22_Witness ==
    /\ nameOp = "run"
    /\ nameArg = <<"hf.co", "/", "Org", "/", "M">>
    /\ nameArg2 = <<"hf.co", "/", "org", "/", "m", ":", "latest">>
    /\ nameOut = nameOut2

\* The stored reference was normalized again and came back unchanged.
C22_WitnessIdempotent ==
    /\ nameOp = "run"
    /\ nameArg = <<"myorg", "/", "m">>
    /\ nameArg2 = nameOut
    /\ nameOut2 = nameOut

\* ------------------------------------------------------------------------
\* C23: a reference whose first segment is a registry host, with or without
\* a port, and whose remainder has neither ":" nor "@" is normalized to
\* itself with :latest appended.
\* ------------------------------------------------------------------------
C23_HostRefGetsDefaultTag ==
    (nameOp = "pulled" /\ UntaggedHostRef(nameArg)) =>
        nameOut = ToLower(nameArg) \o <<":", "latest">> \/ nameOut = nameArg \o <<":", "latest">>

\* registry.local:5000/ai/m was normalized to itself, without a tag.
C23_PortHostKeepsNoTag ==
    /\ nameOp = "pulled"
    /\ nameArg = <<"registry.local", ":", "5000", "/", "ai", "/", "m">>
    /\ nameOut = nameArg

\* Registry hosts without a port do get the default tag.
C23_HostWithoutPortGetsTag ==
    (nameOp = "pulled" /\ UntaggedHostRef(nameArg) /\ ~Contains(FirstSegment(nameArg), ":")) =>
        C23_HostRefGetsDefaultTag

\* ------------------------------------------------------------------------
\* C24: whatever DEFAULT_REGISTRY is, stripDefaultsFromModelName removes a
\* leading index.docker.io/ or docker.io/, and the configured default
\* registry, and then the default org ai/ and the default tag :latest.
\* ------------------------------------------------------------------------
\* A name without its default org and its default tag.
WithoutOrgAndTag(name) == TrimSuffix(TrimPrefix(name, <<"ai", "/">>), <<":", "latest">>)

DockerHubPrefixes == { <<"index.docker.io", "/">>, <<"docker.io", "/">> }

C24_DockerHubPrefixAlwaysStripped ==
    nameOp = "stripped" =>
        \A prefix \in DockerHubPrefixes :
            HasPrefix(nameArg, prefix) => nameOut = WithoutOrgAndTag(TrimPrefix(nameArg, prefix))

\* With DEFAULT_REGISTRY set to a custom host, docker.io/ai/m:latest is
\* displayed as docker.io/ai/m.
C24_PrefixKeptUnderCustomRegistry ==
    /\ nameOp = "stripped"
    /\ nameEnv = <<"registry.example.com">>
    /\ nameArg = <<"docker.io", "/", "ai", "/", "m", ":", "latest">>
    /\ nameOut = <<"docker.io", "/", "ai", "/", "m">>

\* Without a custom DEFAULT_REGISTRY the prefixes are removed, and a custom
\* default registry is removed when it is the name's prefix.
C24_StrippedUnlessCustomRegistry ==
    nameOp = "stripped" =>
        /\ nameEnv \in {<<>>, <<"docker.io">>, <<"index.docker.io">>} =>
              C24_DockerHubPrefixAlwaysStripped
        /\ (nameEnv # <<>> /\ HasPrefix(nameArg, nameEnv \o <<"/">>)) =>
              nameOut = WithoutOrgAndTag(TrimPrefix(nameArg, nameEnv \o <<"/">>))

\* ------------------------------------------------------------------------
\* C27: handleCreateModel answers a failed pull with the status of its kind
\* of error: invalid reference 400, unauthorized 401, model not found 404,
\* unsupported media type 415, unsupported format 415, any other error 500.
\* ------------------------------------------------------------------------
TaxonomyStatus ==
    [ErrInvalidReference |-> 400, ErrUnauthorized |-> 401, ErrModelNotFound |-> 404,
     ErrUnsupportedMediaType |-> 415, ErrUnsupportedFormat |-> 415, other |-> 500]

\* The handler has answered a pull that failed before any status was sent.
FailedBeforeStatus(r) ==
    /\ hpc[r] = "replied"
    /\ herr[r] \in DOMAIN TaxonomyStatus
    /\ hbody[r] = <<"text">>

C27_PullErrorsMapToTaxonomy ==
    \A r \in CreateReqs : FailedBeforeStatus(r) => hstatus[r] = TaxonomyStatus[herr[r]]

\* A pull that failed with ErrUnsupportedMediaType was answered with 500.
C27_MediaTypeAnsweredWith500 ==
    \E r \in CreateReqs :
        /\ FailedBeforeStatus(r)
        /\ herr[r] = "ErrUnsupportedMediaType"
        /\ hstatus[r] = 500

\* The kinds the handler tells apart get the status of the taxonomy.
C27_OtherKindsMapToTaxonomy ==
    \A r \in CreateReqs :
        (FailedBeforeStatus(r) /\ herr[r] # "ErrUnsupportedMediaType") =>
            hstatus[r] = TaxonomyStatus[herr[r]]

\* ------------------------------------------------------------------------
\* C28: when the pull ends because the request context was cancelled or
\* timed out, while waiting for a token or during the transfer,
\* handleCreateModel writes no error status and no error text to the
\* response and logs the event neither as a warning nor as an error.
\* ------------------------------------------------------------------------
\* What the handler itself wrote to the response.
HandlerText(body) == {i \in 1..Len(body) : body[i] = "text"}

C28_CancellationIsSilent ==
    \A r \in CreateReqs :
        (hpc[r] = "replied" /\ herr[r] \in {"Canceled", "ctxerr"}) =>
            /\ HandlerText(hbody[r]) = {}
            /\ hstatus[r] \in {NoStatus, 200}
            /\ hlog[r] \notin {"warn", "error"}

\* Both cancellations have been handled: one while waiting for a token (no
\* header was written), one during the transfer.
C28_Witness ==
    \E r \in CreateReqs :
        /\ hpc[r] = "replied"
        /\ herr[r] = "ctxerr"
        /\ headers[r]
        /\ hlog[r] = "info"

C28_WitnessWaiting ==
    \E r \in CreateReqs :
        /\ hpc[r] = "replied"
        /\ herr[r] = "Canceled"
        /\ ~headers[r]
        /\ hstatus[r] = NoStatus

\* ========================================================================
\* Properties of a layer download
\* ========================================================================

\* ------------------------------------------------------------------------
\* C30: a layer download that ends with a hash mismatch is fetched again
\* once by itself, so writeLayer fails with a mismatch only after a second
\* attempt; no download is attempted more than twice, and a download that
\* fails in another way is not attempted again.
\* ------------------------------------------------------------------------
C30_MismatchRefetchedOnce ==
    \A w \in Writers :
        /\ lresult[w] = "mismatch" => lattempts[w] = 2
        /\ lattempts[w] <= 2
        /\ lresult[w] \notin {"none", "nil", "mismatch"} => lattempts[w] = 1

\* writeLayer returned the hash mismatch of its first and only WriteBlob
\* call, after the corrupt file was removed.
C30_MismatchReturnedAfterOneAttempt ==
    \E w \in Writers :
        /\ wpc[w] = "idle"
        /\ lresult[w] = "mismatch"
        /\ lattempts[w] = 1

\* writeLayer calls WriteBlob once, whatever WriteBlob returns.
C30_NothingIsRetried ==
    \A w \in Writers : lattempts[w] <= 1

\* The blobs of model id that no stored manifest refers to are gone.
UnreferencedBlobsGone(id) ==
    (blobs \cap LayersOf(id)) \subseteq UNION {LayersOf(other) : other \in manifests}

\* C25: a delete of a model with more than one tag is answered with 409
\* and changes nothing when force is not set, and with force set is answered
\* with 200, removes every tag of the model, and deletes its manifest and the
\* blobs no other manifest refers to.
C25_MultiTagDeleteNeedsForce ==
    (ilast.op = "delete" /\ ~clientNil /\ ~ilast.failed /\ ilast.tags > 1) =>
        IF ilast.force
        THEN /\ istatus = 200
             /\ TagsOf(tagIndex, ilast.id) = {}
             /\ ilast.id \notin manifests
             /\ UnreferencedBlobsGone(ilast.id)
        ELSE /\ istatus = 409
             /\ ~ilast.changed
             /\ Cardinality(TagsOf(tagIndex, ilast.id)) = ilast.tags
             /\ ilast.id \in manifests

\* A delete without force of a model with two tags was refused.
C25_Witness ==
    /\ ilast.op = "delete" /\ ~ilast.failed /\ ~ilast.force /\ ilast.tags = 2
    /\ istatus = 409

\* A forced delete of a model with two tags removed it.
C25_WitnessForced ==
    /\ ilast.op = "delete" /\ ilast.force /\ ilast.tags = 2
    /\ istatus = 200 /\ ilast.changed /\ blobs = {}

\* The last request was POST /models/{name}/{action} with an action that is
\* neither tag nor push.
UnknownActionRequested ==
    ilast.op \in ActionNames \ {"tag", "push"}

\* C29 (as stated): an action other than tag or push is answered with 404
\* and changes nothing; a tag action with an empty or missing repo or tag is
\* answered with 400 and creates no tag, whether or not the source model
\* exists.
C29_MissingParamsAlways400 ==
    /\ UnknownActionRequested => (istatus = 404 /\ ~ilast.changed)
    /\ (ilast.op = "tag" /\ ilast.missing) => (istatus = 400 /\ ~ilast.changed)

\* C29 (amended): an action other than tag or push is answered with 404 and
\* changes nothing; a tag action with an empty or missing repo or tag creates
\* no tag, whether or not the source model exists, and is answered with 400
\* by a manager that has a distribution client and with 503 by one that has
\* none.
C29_MissingParams400WithClient ==
    /\ UnknownActionRequested => (istatus = 404 /\ ~ilast.changed)
    /\ (ilast.op = "tag" /\ ilast.missing) =>
           (istatus = (IF clientNil THEN 503 ELSE 400) /\ ~ilast.changed)

\* A tag request without its parameters for a model in the store was
\* answered with 400.
C29_Witness ==
    /\ ilast.op = "tag" /\ ilast.missing /\ ilast.id # NoModel
    /\ istatus = 400

\* A tag request without its parameters for a model not in the store was
\* answered with 400.
C29_WitnessNoSource ==
    /\ ilast.op = "tag" /\ ilast.missing /\ ilast.id = NoModel
    /\ istatus = 400

\* An unknown action on a model in the store was answered with 404.
C29_WitnessUnknownAction ==
    /\ UnknownActionRequested /\ ilast.id # NoModel /\ istatus = 404

\* The models that tags point at.
TaggedModels == {tagIndex[t] : t \in TagRefs} \ {NoModel}

C26_WitnessPurged ==
    /\ ilast.op = "purge" /\ istatus = 200 /\ blobs = {} /\ manifests = {}

\* ========================================================================
\* Properties of the registry options
\* ========================================================================

\* The number of the two variables that are set.
VariablesSet(env) ==
    (IF env.DEFAULT_REGISTRY # "" THEN 1 ELSE 0) + (IF env.INSECURE_REGISTRY # "" THEN 1 ELSE 0)

C31_WitnessAfterReset ==
    /\ regState.wasReset /\ regState.calls = 1
    /\ regState.returned = OptionsFor(regState.env) /\ regState.returned # <<>>

\* ========================================================================
\* Properties of the model list
\* ========================================================================

\* The rows a list of models calls for: the pairs of a model and one of its
\* tags, and a model without tags paired with <none>.
RowsCalledFor(ms, which) ==
    UNION {IF ms[i].Tags = <<>> THEN {<<i, NoneName>>}
           ELSE {<<i, ms[i].Tags[j]>> : j \in 1..Len(ms[i].Tags)} : i \in which}

\* The table has exactly the rows called for by the models in which.
HasRowsOf(which) ==
    LET rows == listState.rows
    IN  /\ {<<rows[k].model, rows[k].tag>> : k \in 1..Len(rows)} = RowsCalledFor(listState.models, which)
        /\ Len(rows) = Cardinality(RowsCalledFor(listState.models, which))

\* Row ra may stand before row rb: by lowercase base name, then no variant
\* before a variant, then lowercase variant.
MayPrecede(ra, rb) ==
    LET sa == splitDisplayName(ra.displayName)
        sb == splitDisplayName(rb.displayName)
        la == LowerCharacters(Characters(sa.base))
        lb == LowerCharacters(Characters(sb.base))
        va == LowerCharacters(Characters(sa.variant))
        vb == LowerCharacters(Characters(sb.variant))
    IN  \/ StringLess(la, lb)
        \/ la = lb /\ sa.variant = <<>>
        \/ la = lb /\ sa.variant # <<>> /\ sb.variant # <<>> /\ ~StringLess(vb, va)

RowsInOrder ==
    \A a, b \in 1..Len(listState.rows) :
        a < b => MayPrecede(listState.rows[a], listState.rows[b])

\* C32 (as stated): the table has one row per tag of every model and one
\* <none> row per model without tags, and all rows together are ordered by
\* lowercase base name, then rows without a variant first, then lowercase
\* variant.
C32_OneRowPerTagSorted ==
    listState.printed =>
        /\ HasRowsOf(1..Len(listState.models))
        /\ RowsInOrder

\* The models whose ID has at least 19 characters.
DisplayableModels == {i \in 1..Len(listState.models) : IDLength(listState.models[i].ID) >= 19}

\* C32 (amended): the table has one row per tag, and one <none> row per
\* model without tags, of every model whose ID has at least 19 characters and
\* no row of any other model; all rows together are ordered by lowercase
\* base name, then rows without a variant first, then lowercase variant.
C32_OneRowPerTagOfLongIDsSorted ==
    listState.printed =>
        /\ HasRowsOf(DisplayableModels)
        /\ RowsInOrder

\* The rows of one model stand on both sides of a row of the other, and a
\* row of an uppercase name follows a row of a lowercase one.
C32_Witness ==
    /\ listState.printed /\ Len(listState.rows) = 3
    /\ listState.rows[1].model = listState.rows[3].model
    /\ listState.rows[2].model # listState.rows[1].model
    /\ listState.rows[3].displayName = <<"B">>

\* A model with a short ID and two tags has no row.
C32_ShortIDHasNoRow ==
    /\ listState.printed
    /\ \E i \in 1..Len(listState.models) :
           /\ Len(listState.models[i].Tags) = 2
           /\ i \notin DisplayableModels
           /\ \A k \in 1..Len(listState.rows) : listState.rows[k].model # i

\* C39: for every listing, models with an ID of fewer than 19 characters
\* included, fullModelID returns a model ID or not-found and never takes
\* ID[7:19] out of range.
C39_FullModelIDNeverPanics ==
    listState.lookup.res \in {"none", "found", "notfound"}

\* fullModelID came to a model with a short ID and took ID[7:19] of it.
C39_PanicsOnShortID ==
    /\ listState.lookup.res = "panic"
    /\ \E i \in 1..Len(listState.models) : IDLength(listState.models[i].ID) < 19

\* On listings whose IDs all have 19 characters or more, fullModelID
\* returns a model ID or not-found.
C39_ReturnsOnLongIDs ==
    (\A i \in 1..Len(listState.models) : IDLength(listState.models[i].ID) >= 19) =>
        listState.lookup.res \in {"none", "found", "notfound"}

\* The last request was a tag request with both parameters that the
\* distribution client did not fail.
TagRequested ==
    ilast.op = "tag" /\ ~clientNil /\ ~ilast.missing /\ ~ilast.failed

\* The tag every complete tag request asks for.
RequestedTag == <<"ai", "/", "m", ":", "v1">>

\* C33: when the source of a tag request is the full ID, the 12-character
\* short ID or a bare name of a stored model M, as a local GET /models/{src}
\* resolves it, the request is answered with 201 and the target tag points
\* at M.
C33_TagResolvesLikeInspect ==
    (TagRequested /\ ilast.local # {}) =>
        (istatus = 201 /\ tagIndex[RequestedTag] \in ilast.local)

\* A tag request whose source is the full ID of a stored model was answered
\* with 404.
C33_FullIDNotFound ==
    /\ TagRequested /\ ilast.src = ID1 /\ ID1 \in manifests
    /\ istatus = 404 /\ ~ilast.changed

\* A tag request whose source is the short ID of a stored model was answered
\* with 404.
C33_ShortIDNotFound ==
    /\ TagRequested /\ ilast.src = ShortID(ID1) /\ ID1 \in manifests
    /\ istatus = 404

\* A tag request whose source is a bare name that matches only the name part
\* of a stored tag was answered with 404.
C33_PartialNameNotFound ==
    /\ TagRequested /\ ilast.src = <<"m">> /\ ilast.local # {}
    /\ istatus = 404

\* A tag request whose source names a stored tag, as given or normalized, is
\* answered with 201 and the target tag points at its model.
C33_TagResolvesStoredTags ==
    (TagRequested /\ ResolveRef(tagIndex, manifests, NormalizeModelName(ilast.src)) # NoModel
                  /\ ilast.id # NoModel) =>
        (istatus = 201 /\ tagIndex[RequestedTag] = ilast.id)

\* What Client.Remove([arg], force) would do in this state: the status and
\* the tags it removes.
RemoveOutcome(arg, force) ==
    LET answer == DeleteAnswer(RemoveRef(arg), FormatBool(force), FALSE)
    IN  [status |-> answer.status,
         removed |-> {t \in TagRefs : tagIndex[t] # NoModel /\ answer.store.tagIndex[t] = NoModel},
         store |-> answer.store]

\* The model under ai/m:v1 has several tags and the store is at rest.
SeveralTagsAtRest ==
    /\ ~clientNil /\ ipull = NoPull
    /\ tagIndex[<<"ai", "/", "m", ":", "v1">>] # NoModel
    /\ Cardinality(TagsOf(tagIndex, tagIndex[<<"ai", "/", "m", ":", "v1">>])) > 1

\* C40: for a stored model with several tags, removing m:v1 and removing
\* ai/m:v1 with the same force flag remove the same tags and have the same
\* outcome, which is that only that tag is untagged or the conflict.
C40_RemoveSameForEquivalentRefs ==
    SeveralTagsAtRest =>
        \A force \in BOOLEAN :
            LET short == RemoveOutcome(<<"m", ":", "v1">>, force)
                full == RemoveOutcome(<<"ai", "/", "m", ":", "v1">>, force)
            IN  /\ short = full
                /\ \/ short.status = 409 /\ short.removed = {}
                   \/ short.status = 200 /\ short.removed = {<<"ai", "/", "m", ":", "v1">>}

\* Removing m:v1 with force from a model with two tags sent the model's ID
\* and removed both tags.
C40_ShortFormRemovesEveryTag ==
    /\ ilast.op = "delete" /\ ilast.src = <<"m", ":", "v1">>
    /\ ilast.force /\ ilast.tags = 2 /\ istatus = 200
    /\ \A t \in TagRefs : tagIndex[t] = NoModel

\* Both forms have the same outcome in the store modelled here.
C40_SameOutcomeBothForms ==
    SeveralTagsAtRest =>
        \A force \in BOOLEAN :
            RemoveOutcome(<<"m", ":", "v1">>, force) = RemoveOutcome(<<"ai", "/", "m", ":", "v1">>, force)

\* The short form is sent as the model's ID, the full form as the tag.
C40_FormsSentDiffer ==
    SeveralTagsAtRest =>
        /\ RemoveRef(<<"m", ":", "v1">>) = tagIndex[<<"ai", "/", "m", ":", "v1">>]
        /\ RemoveRef(<<"ai", "/", "m", ":", "v1">>) = <<"ai", "/", "m", ":", "v1">>

\* The first line at which the loop over the stream stops: a line too long
\* for the scanner or an error event; past the end when there is none.
FirstStop(lines) ==
    LET stops == {i \in 1..Len(lines) : TooLong(lines[i]) \/ lines[i].type = "error"}
    IN  IF stops = {} THEN Len(lines) + 1
        ELSE CHOOSE i \in stops : \A j \in stops : i <= j

\* A progress event was read and displayed before the loop stopped.
ProgressDisplayed(lines) ==
    \E i \in 1..(FirstStop(lines) - 1) : lines[i].type = "progress"

\* The display itself works: no terminal whose message stream fails.
DisplayWorks == ~(dTerminal /\ dDisplayErr)

\* C34: Client.Pull and Client.Push report progressShown = true whenever at
\* least one progress event was displayed, whether the stream ended with a
\* success event or with an error event.
C34_ShownWheneverProgressDisplayed ==
    (dDone /\ DisplayWorks /\ ProgressDisplayed(dStream)) =>
        ClientPull(dStream, dTerminal, dDisplayErr).shown

\* A progress event was displayed, an error event followed, and
\* progressShown is false.
C34_ErrorAfterProgressNotShown ==
    /\ dDone /\ DisplayWorks
    /\ Len(dStream) >= 2
    /\ dStream[1].type = "progress" /\ dStream[2].type = "error"
    /\ dRes.err = "failed"
    /\ ~dRes.shown
    /\ ~ClientPull(dStream, dTerminal, dDisplayErr).shown

\* When no error is returned, progressShown tells whether a progress event
\* was displayed.
C34_ShownOnSuccess ==
    (dDone /\ DisplayWorks /\ dRes.err = "nil") =>
        (ClientPull(dStream, dTerminal, dDisplayErr).shown <=> ProgressDisplayed(dStream))

\* The body held a success event.
HasSuccessEvent(lines) == \E i \in 1..Len(lines) : lines[i].type = "success"

\* C37: DisplayProgress and displayProgressSimple return a nil error only if
\* the body contained a success event; a stream that ends without a terminal
\* event is not reported as success.
C37_NilErrorOnlyAfterSuccess ==
    (dDone /\ dRes.err = "nil") => HasSuccessEvent(dStream)

\* A stream of progress events that ends without a terminal event came back
\* with a nil error and an empty message.
C37_TruncatedStreamReturnsNil ==
    /\ dDone
    /\ Len(dStream) >= 1
    /\ \A i \in 1..Len(dStream) : dStream[i].type = "progress"
    /\ dRes.err = "nil" /\ dRes.msg = "" /\ dRes.shown

\* After a success event and no error, the message of the last success
\* event is returned.
C37_SuccessEventGivesMessage ==
    (dDone /\ dRes.err = "nil" /\ HasSuccessEvent(dStream)) => dRes.msg # ""

\* C38: on a terminal DisplayProgress always returns once the body is
\* exhausted or a terminal event is read: the main loop never blocks forever
\* in a write to the pipe, also when the display goroutine has stopped
\* reading because of an error.
C38_DisplayProgressAlwaysReturns == <>(pipe.main = "returned")

\* The main loop is inside a write to the pipe that nothing will read: the
\* goroutine has returned with an error and pr was never closed.
C38_BlockedInWrite ==
    /\ pipe.main = "write"
    /\ pipe.display = "failed"
    /\ pipe.written >= 1
    /\ ~pipe.pwClosed

\* pw is closed on every return path, and the goroutine then ends.
C38_PipeClosedOnReturn == pipe.main = "returned" => pipe.pwClosed

C38_GoroutineEndsAfterReturn == (pipe.main = "returned") ~> (pipe.display # "reading")

\* C35: RunBackend returns only after the backend process has exited and
\* the goroutine waiting for it has delivered its result; it returns nil
\* when the context is cancelled, also when the backend exited as well, and
\* the 'terminated unexpectedly' error when the backend exited and the
\* context was not cancelled.
C35_ReturnsAfterBackendExit ==
    (backend.main = "returned" /\ backend.proc # "none") =>
        /\ backend.proc \in {"exit 0", "exit 1"}
        /\ backend.waiter \in {"close", "remove", "done"}
        /\ backend.res = "nil" <=> backend.ctxAtReturn
        /\ backend.res = "terminated unexpectedly" <=> ~backend.ctxAtReturn

\* The context was cancelled, the backend exited with an error, and
\* RunBackend returned nil after the goroutine's result was there.
C35_Witness ==
    /\ backend.main = "returned"
    /\ backend.ctxDone /\ backend.res = "nil"
    /\ backend.proc = "exit 1"
    /\ backend.waiter = "done"

\* The backend exited by itself and RunBackend returned the error.
C35_WitnessUnexpected ==
    /\ backend.main = "returned"
    /\ ~backend.ctxDone
    /\ backend.res = "terminated unexpectedly"
    /\ backend.proc = "exit 0"
    /\ backend.waiter \in {"close", "remove", "done"}

\* The routes that need the distribution client.
ClientRoutes ==
    {"create", "load", "package", "list", "get", "delete", "tag", "push", "purge",
     "openai list", "openai get"}

\* C36: when the manager has no distribution client, every models route
\* that needs it (create, load, package, list, get, delete, tag, push,
\* purge and the OpenAI model routes) answers 503.
C36_EveryRoute503WithoutClient ==
    (clientNil /\ ilast.op \in ClientRoutes) => istatus = 503

\* GET /models/ai/m:latest of a manager without distribution client was
\* answered with 500.
C36_GetAnswers500 ==
    /\ clientNil
    /\ ilast.op = "get" /\ ilast.src = <<"ai", "/", "m", ":", "latest">>
    /\ istatus = 500

\* Every route but GET /models/{name} answers 503 without the client, and
\* none changes the store.
C36_OtherRoutes503 ==
    /\ (clientNil /\ ilast.op \in ClientRoutes \ {"get"}) => istatus = 503
    /\ clientNil => (manifests = {} /\ blobs = {})

====
